---- MODULE Spec2Model ----
(***************************************************************************)
(* A model of the lowering core of akari (src/src/codegen.rs): the typed   *)
(* module tree is lowered to a control-flow graph of basic blocks.         *)
(*                                                                         *)
(* build_module is a state machine: one action per pass iteration and per  *)
(* step of build_statement between two recursive calls.  The Rust call     *)
(* stack of build_statement is the variable `stack`.  build_expression     *)
(* never suspends and is a RECURSIVE operator.                              *)
(***************************************************************************)
EXTENDS Integers, Sequences, FiniteSets, TLC

VARIABLES
    prog,          \* the semantic::Module being lowered (read-only input)
    run,           \* 1 or 2: which call of build_module on prog this is
    first,         \* the outcome of the first call, once it has returned
    pc,            \* position in build_module
    i,             \* index of the `for` loop of the current pass
    j,             \* index of the next statement of the current body
    symbol_table,  \* SymbolTable: scope_stack and functions
    module,        \* inkwell Module: its functions and their blocks
    builder,       \* inkwell Builder: the insertion point
    nextv,         \* the number of the next value of the function being lowered
    stack,         \* active build_statement calls, innermost last
    result,        \* what build_module returned (or the panic that ended it)
    last,          \* the step of the lowering that was taken last
    lowered,       \* the Conditional and Loop statements lowered so far
    exec           \* the machine state of an execution of the emitted CFG

vars == <<prog, run, first, pc, i, j, symbol_table, module, builder, nextv,
          stack, result, last, lowered, exec>>

(***************************************************************************)
(* Bounds of the model.                                                    *)
(***************************************************************************)
MaxDepth == 2      \* nesting depth of the statements of the generated bodies
MaxDefs == 2       \* definitions of a generated module of calls
MaxStart == 1      \* initial value of the counter of an executed loop
MaxLimit == 3      \* limit of the counter of an executed loop
MaxSteps == 80     \* instructions one execution may run

(***************************************************************************)
(* Primitive types and their LLVM types.                                   *)
(***************************************************************************)
Primitives ==
    {"Bool", "I8", "I16", "I32", "I64", "U8", "U16", "U32", "U64", "F32", "F64"}

to_llvm_type(p) ==
    CASE p = "Bool" -> "i1"
      [] p = "I8" -> "i8"
      [] p = "I16" -> "i16"
      [] p = "I32" -> "i32"
      [] p = "I64" -> "i64"
      [] p = "U8" -> "i8"
      [] p = "U16" -> "i16"
      [] p = "U32" -> "i32"
      [] p = "U64" -> "i64"
      [] p = "F32" -> "f32"
      [] p = "F64" -> "f64"

IntTypes == {"i1", "i8", "i16", "i32", "i64"}
FloatTypes == {"f32", "f64"}

\* BasicValueEnum::IntValue / FloatValue: the kind of a value is that of its type.
IsIntValue(v) == v.ty \in IntTypes
IsFloatValue(v) == v.ty \in FloatTypes

(***************************************************************************)
(* Values.  A constant carries its number (an integer: signed, an i1 as    *)
(* its bit; a float: its exact value in tenths).                           *)
(***************************************************************************)
NoneVal == [k |-> "None"]
ConstVal(ty, v) == [k |-> "const", ty |-> ty, v |-> v]
RegVal(ty, id) == [k |-> "reg", ty |-> ty, id |-> id]
ParamVal(ty, n) == [k |-> "param", ty |-> ty, id |-> n]
PtrVal(id) == [k |-> "ptr", ty |-> "ptr", id |-> id]

Width(ty) ==
    CASE ty = "i1" -> 1
      [] ty = "i8" -> 8
      [] ty = "i16" -> 16
      [] ty = "i32" -> 32
      [] ty = "i64" -> 64

BoolBit(c) == IF c THEN 1 ELSE 0

\* The value of the bits v read as a signed number: an i1 is kept as its bit.
Signed(v, ty) == IF ty = "i1" THEN -v ELSE v

\* A result brought back into the range of its type.  The checker's integers
\* are themselves 32 bits wide, so a result that leaves the range of an i32 or
\* i64 stops the check; the generated programs compute small numbers only.
Wrap(v, ty) ==
    CASE ty = "i1" -> v % 2
      [] ty \in {"i8", "i16"} ->
            LET half == 2 ^ (Width(ty) - 1)
            IN ((v + half) % (2 * half)) - half
      [] OTHER -> v

\* The bitwise instruction f on the n low bits of two's-complement a and b.
RECURSIVE BitOp(_, _, _, _)
BitOp(f, a, b, n) ==
    LET x == a % 2
        y == b % 2
        bit == CASE f = "and" -> BoolBit(x = 1 /\ y = 1)
                 [] f = "or" -> BoolBit(x = 1 \/ y = 1)
                 [] f = "xor" -> BoolBit(x # y)
    IN IF n = 1 THEN -bit
       ELSE bit + 2 * BitOp(f, (a - x) \div 2, (b - y) \div 2, n - 1)

Bitwise(f, a, b, ty) ==
    IF ty = "i1" THEN -BitOp(f, a, b, 1) ELSE BitOp(f, a, b, Width(ty))

\* The value an integer instruction computes from a and b of type ty.
\* Division, remainder and the shifts have undefined results for some operands
\* and are not evaluated: no generated program runs them.
Evaluated ==
    {"add", "sub", "mul", "icmp eq", "icmp ne", "icmp sgt", "icmp slt",
     "icmp sge", "icmp sle", "and", "or", "xor"}

EvalInt(instr, a, b, ty) ==
    LET sa == Signed(a, ty)
        sb == Signed(b, ty)
    IN CASE instr = "add" -> Wrap(a + b, ty)
         [] instr = "sub" -> Wrap(a - b, ty)
         [] instr = "mul" -> Wrap(a * b, ty)
         [] instr = "icmp eq" -> BoolBit(a = b)
         [] instr = "icmp ne" -> BoolBit(a # b)
         [] instr = "icmp sgt" -> BoolBit(sa > sb)
         [] instr = "icmp slt" -> BoolBit(sa < sb)
         [] instr = "icmp sge" -> BoolBit(sa >= sb)
         [] instr = "icmp sle" -> BoolBit(sa <= sb)
         [] instr = "and" -> Bitwise("and", a, b, ty)
         [] instr = "or" -> Bitwise("or", a, b, ty)
         [] instr = "xor" -> Bitwise("xor", a, b, ty)

IsCompare(instr) ==
    instr \in {"icmp eq", "icmp ne", "icmp sgt", "icmp slt", "icmp sge", "icmp sle"}

(***************************************************************************)
(* The typed tree (crate::semantic), as codegen.rs matches on it.          *)
(***************************************************************************)
IntegerLiteral(n) == [k |-> "IntegerLiteral", v |-> n]
FloatLiteral(tenths) == [k |-> "FloatLiteral", v |-> tenths]
BooleanLiteral(t) == [k |-> "BooleanLiteral", v |-> BoolBit(t)]
LValueE(ident) == [k |-> "LValue", ident |-> ident]
Assignment(ident, e) == [k |-> "Assignment", ident |-> ident, expr |-> e]
BinaryOperation(l, op, r) == [k |-> "BinaryOperation", lexpr |-> l, bop |-> op, rexpr |-> r]
UnaryOperation(op, e) == [k |-> "UnaryOperation", uop |-> op, expr |-> e]
FunctionCall(name, args) == [k |-> "FunctionCall", name |-> name, arguments |-> args]

NoExpr == [k |-> "NoExpr"]
NoStmt == [k |-> "NoStmt"]
LocalVar(name, datatype, value) ==
    [k |-> "LocalVar", name |-> name, datatype |-> datatype, value |-> value]
Conditional(c, s, e) ==
    [k |-> "Conditional", condition |-> c, block |-> s, else_block |-> e]
Loop(c, s) == [k |-> "Loop", condition |-> c, body |-> s]
Block(ss) == [k |-> "Block", statements |-> ss]
Return(e) == [k |-> "Return", expression |-> e]
ExpressionS(e) == [k |-> "Expression", expression |-> e]

Param(name, ty) == [name |-> name, ty |-> ty]
\* ty is a primitive, or "None" for a function that returns no value.
FunctionDeclaration(name, params, ty) == [name |-> name, params |-> params, ty |-> ty]
FunctionDefinition(decl, body) == [declaration |-> decl, body |-> body]
Module(decls, defs, exe) == [declarations |-> decls, functions |-> defs, execute |-> exe]

(***************************************************************************)
(* SymbolTable.                                                            *)
(***************************************************************************)
EmptyMap == [n \in {} |-> NoneVal]

Symbol(ptr, ty) == [ptr |-> ptr, ty |-> ty]

SymbolTable_default == [scope_stack |-> <<>>, functions |-> EmptyMap]

\* back_mut().expect(..): with no scope open the insert panics; the caller tests
\* CanPushValue first.
CanPushValue(st) == Len(st.scope_stack) > 0

push_value(st, name, symbol) ==
    LET n == Len(st.scope_stack)
    IN [st EXCEPT !.scope_stack[n] = (name :> symbol) @@ st.scope_stack[n]]

push_scope(st) == [st EXCEPT !.scope_stack = Append(st.scope_stack, EmptyMap)]

pop_scope(st) ==
    [st EXCEPT !.scope_stack =
        IF Len(st.scope_stack) = 0 THEN <<>>
        ELSE SubSeq(st.scope_stack, 1, Len(st.scope_stack) - 1)]

\* A variant of get_value that searches the scopes outermost first.
get_value_outermost(st, name) ==
    LET holds == {d \in 1..Len(st.scope_stack) : name \in DOMAIN st.scope_stack[d]}
    IN IF holds = {} THEN NoneVal
       ELSE LET d == CHOOSE x \in holds : \A y \in holds : x <= y
            IN st.scope_stack[d][name]

\* for scope in self.scope_stack.iter().rev(): the first scope that holds the
\* name, from the back.
get_value(st, name) ==
    LET holds == {d \in 1..Len(st.scope_stack) : name \in DOMAIN st.scope_stack[d]}
    IN IF holds = {} THEN NoneVal
       ELSE LET d == CHOOSE x \in holds : \A y \in holds : y <= x
            IN st.scope_stack[d][name]

\* A variant of add_function that keeps only the new entry.
add_function_alone(st, name, function) ==
    [st EXCEPT !.functions = (name :> function)]

\* self.functions.insert(name, function)
add_function(st, name, function) ==
    [st EXCEPT !.functions = (name :> function) @@ st.functions]

get_function(st, name) ==
    IF name \in DOMAIN st.functions THEN st.functions[name] ELSE NoneVal

(***************************************************************************)
(* Results of the lowering routines: Ok(value), Err(SemanticError) or a    *)
(* panic, with the instructions emitted so far and the next value number.  *)
(***************************************************************************)
NoErr == [kind |-> "none"]
VoidOperation == [kind |-> "VoidOperation"]
TypeMismatch(expected, recieved) ==
    [kind |-> "TypeMismatch", expected |-> expected, recieved |-> recieved]

Start(n) == [res |-> "Ok", err |-> NoErr, msg |-> "", val |-> NoneVal,
             code |-> <<>>, nextv |-> n]
Ok(b, val) == [b EXCEPT !.res = "Ok", !.val = val]
Err(b, e) == [b EXCEPT !.res = "Err", !.err = e, !.val = NoneVal]
Panic(b, msg) == [b EXCEPT !.res = "Panic", !.msg = msg, !.val = NoneVal]

\* The builder appends one instruction at the insertion point.
Emit(b, instr) == [b EXCEPT !.code = Append(b.code, instr)]
\* ... one that defines a value, numbered freshly.
EmitValue(b, instr, ty) ==
    Ok([b EXCEPT !.code = Append(b.code, instr @@ [id |-> b.nextv, ty |-> ty]),
                 !.nextv = b.nextv + 1],
       RegVal(ty, b.nextv))

\* A variant of void_check that lets a void value through as a zero.
void_check_default(r) ==
    IF r.res = "Ok" /\ r.val = NoneVal THEN Ok(r, ConstVal("i32", 0)) ELSE r

\* void_check(x?)?: an error passes through, Ok(None) becomes VoidOperation.
void_check(r) ==
    IF r.res = "Ok" /\ r.val = NoneVal THEN Err(r, VoidOperation) ELSE r

IsConst(v) == v.k = "const"

\* A variant of IntInstr with instructions of their own for LogicAnd and
\* LogicOr.
IntInstrLogicApart(op) ==
    CASE op = "Add" -> "add"
      [] op = "Subtract" -> "sub"
      [] op = "Multiply" -> "mul"
      [] op = "Divide" -> "sdiv"
      [] op = "Equal" -> "icmp eq"
      [] op = "NotEqual" -> "icmp ne"
      [] op = "Greater" -> "icmp sgt"
      [] op = "Less" -> "icmp slt"
      [] op = "Modulo" -> "srem"
      [] op = "BitAnd" -> "and"
      [] op = "BitOr" -> "or"
      [] op = "BitXor" -> "xor"
      [] op = "BitLeft" -> "shl"
      [] op = "BitRight" -> "lshr"
      [] op = "LogicAnd" -> "mul"
      [] op = "LogicOr" -> "add"
      [] op = "GreaterOrEqual" -> "icmp sge"
      [] op = "LessOrEqual" -> "icmp sle"

\* The instruction build_int_binop selects for each operator.
IntInstr(op) ==
    CASE op = "Add" -> "add"
      [] op = "Subtract" -> "sub"
      [] op = "Multiply" -> "mul"
      [] op = "Divide" -> "sdiv"
      [] op = "Equal" -> "icmp eq"
      [] op = "NotEqual" -> "icmp ne"
      [] op = "Greater" -> "icmp sgt"
      [] op = "Less" -> "icmp slt"
      [] op = "Modulo" -> "srem"
      [] op = "BitAnd" -> "and"
      [] op = "BitOr" -> "or"
      [] op = "BitXor" -> "xor"
      [] op = "BitLeft" -> "shl"
      [] op = "BitRight" -> "lshr"
      [] op = "LogicAnd" -> "and"
      [] op = "LogicOr" -> "or"
      [] op = "GreaterOrEqual" -> "icmp sge"
      [] op = "LessOrEqual" -> "icmp sle"

\* The builder folds an instruction whose operands are both constants into a
\* constant and inserts nothing; otherwise it inserts the instruction.
build_int_binop(b, op, l, r) ==
    LET instr == IntInstr(op)
        ty == IF IsCompare(instr) THEN "i1" ELSE l.ty
    IN IF IsConst(l) /\ IsConst(r) /\ instr \in Evaluated
       THEN Ok(b, ConstVal(ty, EvalInt(instr, l.v, r.v, l.ty)))
       ELSE EmitValue(b, [op |-> instr, l |-> l, r |-> r], ty)

build_signed_int_to_float(b, v, ty) ==
    IF IsConst(v)
    THEN Ok(b, ConstVal(ty, 10 * Signed(v.v, v.ty)))
    ELSE EmitValue(b, [op |-> "sitofp", val |-> v], ty)

RECURSIVE build_expression(_, _, _)
RECURSIVE build_arguments(_, _, _, _)

\* Self::Assignment, after the right-hand side r was lowered and void-checked.
build_assignment(e, st, r) ==
    LET symbol == get_value(st, e.ident)
    IN IF symbol = NoneVal THEN Panic(r, "lval is undefined")
       ELSE IF symbol.ty # r.val.ty THEN Err(r, TypeMismatch("I32", "I32"))
       ELSE EmitValue(Emit(r, [op |-> "store", ptr |-> symbol.ptr, val |-> r.val]),
                      [op |-> "load", ptr |-> symbol.ptr], symbol.ty)

\* Self::LValue.
build_lvalue(e, st, b) ==
    LET symbol == get_value(st, e.ident)
    IN IF symbol = NoneVal THEN Panic(b, "Identifier not on stack")
       ELSE EmitValue(b, [op |-> "load", ptr |-> symbol.ptr], symbol.ty)

\* A variant of build_binary that converts an integer operand on either side.
build_binary_symmetric(e, lv, r) ==
    LET conv == IF IsIntValue(lv) /\ IsFloatValue(r.val)
                THEN build_signed_int_to_float(r, lv, r.val.ty)
                ELSE IF IsFloatValue(lv) /\ IsIntValue(r.val)
                THEN build_signed_int_to_float(r, r.val, lv.ty)
                ELSE Ok(r, lv)
        l == conv.val
    IN IF IsIntValue(lv) /\ IsIntValue(r.val)
       THEN build_int_binop(conv, e.bop, lv, r.val)
       ELSE Panic(conv, "Binary operation is not yet implemented")

\* Self::BinaryOperation, after both operands were lowered and void-checked:
\* lv is the left value, r the result that holds the right value.
build_binary(e, lv, r) ==
    LET conv == IF IsIntValue(lv) /\ IsFloatValue(r.val)
                THEN build_signed_int_to_float(r, lv, r.val.ty)
                ELSE Ok(r, lv)
        l == conv.val
    IN IF IsIntValue(l) /\ IsIntValue(r.val)
       THEN build_int_binop(conv, e.bop, l, r.val)
       ELSE Panic(conv, "Binary operation is not yet implemented")

\* Self::FunctionCall, after the arguments were lowered.
build_call(e, fn_value, a) ==
    IF fn_value.ret = "void"
    THEN Ok(Emit(a.b, [op |-> "call", fn |-> fn_value.handle, args |-> a.args,
                       id |-> 0, ty |-> "void"]),
            NoneVal)
    ELSE EmitValue(a.b, [op |-> "call", fn |-> fn_value.handle, args |-> a.args],
                   fn_value.ret)

build_expression(e, st, b) ==
    CASE e.k = "Assignment" ->
            LET r == void_check(build_expression(e.expr, st, b))
            IN IF r.res # "Ok" THEN r ELSE build_assignment(e, st, r)
      [] e.k = "LValue" -> build_lvalue(e, st, b)
      [] e.k = "BooleanLiteral" -> Ok(b, ConstVal("i1", e.v))
      [] e.k = "IntegerLiteral" -> Ok(b, ConstVal("i32", Wrap(e.v, "i32")))
      [] e.k = "FloatLiteral" -> Ok(b, ConstVal("f32", e.v))
      [] e.k = "BinaryOperation" ->
            LET l == void_check(build_expression(e.lexpr, st, b))
            IN IF l.res # "Ok" THEN l
               ELSE LET r == void_check(build_expression(e.rexpr, st, l))
                    IN IF r.res # "Ok" THEN r ELSE build_binary(e, l.val, r)
      [] e.k = "UnaryOperation" -> build_expression(e.expr, st, b)
      [] e.k = "FunctionCall" ->
            LET fn_value == get_function(st, e.name)
            IN IF fn_value = NoneVal THEN Panic(b, "undeclared function")
               ELSE LET a == build_arguments(e.arguments, 1, st,
                                             [b |-> b, args |-> <<>>])
                    IN IF a.b.res # "Ok" THEN a.b ELSE build_call(e, fn_value, a)

\* A variant of build_arguments that lowers the arguments last to first.
RECURSIVE build_arguments_reversed(_, _, _, _)
build_arguments_reversed(arguments, n, st, acc) ==
    IF n > Len(arguments) THEN acc
    ELSE LET r == void_check(build_expression(arguments[Len(arguments) + 1 - n],
                                              st, acc.b))
         IN IF r.res # "Ok" THEN [b |-> r, args |-> acc.args]
            ELSE build_arguments_reversed(arguments, n + 1, st,
                                          [b |-> r, args |-> <<r.val>> \o acc.args])

\* for a in arguments { args.push(void_check(a.build_expression(..)?)?) }
build_arguments(arguments, n, st, acc) ==
    IF n > Len(arguments) THEN acc
    ELSE LET r == void_check(build_expression(arguments[n], st, acc.b))
         IN IF r.res # "Ok" THEN [b |-> r, args |-> acc.args]
            ELSE build_arguments(arguments, n + 1, st,
                                 [b |-> r, args |-> Append(acc.args, r.val)])

(***************************************************************************)
(* The module under construction and the builder.                          *)
(***************************************************************************)
NewModule == [functions |-> <<>>]
NewBuilder == [function |-> 0, block |-> 0]

BasicBlock(label) == [label |-> label, instrs |-> <<>>]

\* context.append_basic_block(function, label): the module with the block
\* appended to the function; the new block is the last of the function.
append_basic_block(m, function, label) ==
    [m EXCEPT !.functions[function].blocks = Append(@, BasicBlock(label))]

NumBlocks(m, function) == Len(m.functions[function].blocks)

\* The instructions `code` appended at the insertion point of the builder.
InsertAt(m, bld, code) ==
    [m EXCEPT !.functions[bld.function].blocks[bld.block].instrs = @ \o code]

position_at_end(bld, block) == [bld EXCEPT !.block = block]

\* FunctionDeclaration::build_function_prototype: the function value.
FunctionValue(fn_dec, m) ==
    [handle |-> Len(m.functions) + 1,
     params |-> [n \in 1..Len(fn_dec.params) |-> to_llvm_type(fn_dec.params[n].ty)],
     ret |-> IF fn_dec.ty = "None" THEN "void" ELSE to_llvm_type(fn_dec.ty)]

\* ... and the module with the function added.
build_function_prototype(fn_dec, m) ==
    LET fv == FunctionValue(fn_dec, m)
    IN [m EXCEPT !.functions =
           Append(@, [name |-> fn_dec.name, params |-> fv.params, ret |-> fv.ret,
                      blocks |-> <<>>])]

\* A variant of build_params that binds every parameter to the first slot.
RECURSIVE build_params_shared(_, _, _)
build_params_shared(params, n, acc) ==
    IF n > Len(params) THEN acc
    ELSE LET ty == to_llvm_type(params[n].ty)
             id == acc.b.nextv
             b1 == Emit([acc.b EXCEPT !.nextv = id + 1],
                        [op |-> "alloca", id |-> id, ty |-> ty, name |-> "param_ptr"])
             b2 == Emit(b1, [op |-> "store", ptr |-> PtrVal(id),
                             val |-> ParamVal(ty, n)])
         IN build_params_shared(params, n + 1,
                                [b |-> b2,
                                 st |-> push_value(acc.st, params[n].name,
                                                   Symbol(PtrVal(0), ty))])

\* The parameters of a definition: a slot for each, the incoming value stored
\* into it, the name bound to it (build_module, lines 90-103).
RECURSIVE build_params(_, _, _)
build_params(params, n, acc) ==
    IF n > Len(params) THEN acc
    ELSE LET ty == to_llvm_type(params[n].ty)
             id == acc.b.nextv
             b1 == Emit([acc.b EXCEPT !.nextv = id + 1],
                        [op |-> "alloca", id |-> id, ty |-> ty, name |-> "param_ptr"])
             b2 == Emit(b1, [op |-> "store", ptr |-> PtrVal(id),
                             val |-> ParamVal(ty, n)])
         IN build_params(params, n + 1,
                         [b |-> b2,
                          st |-> push_value(acc.st, params[n].name,
                                            Symbol(PtrVal(id), ty))])

(***************************************************************************)
(* The control state of build_module.                                      *)
(***************************************************************************)
\* Where build_module stands when the loop of pass p is at index n: a loop
\* that is exhausted gives way to the next pass.
NextPos(p, n) ==
    IF p = "declarations" /\ n <= Len(prog.declarations) THEN <<"declarations", n>>
    ELSE IF p \in {"declarations", "functions"}
            /\ (IF p = "functions" THEN n ELSE 1) <= Len(prog.functions)
         THEN <<"functions", IF p = "functions" THEN n ELSE 1>>
    ELSE IF (IF p = "bodies" THEN n ELSE 1) <= Len(prog.functions)
         THEN <<"bodies", IF p = "bodies" THEN n ELSE 1>>
    ELSE <<"return", 0>>

Frame(s) == [s |-> s, step |-> 0, blocks |-> <<>>, pre |-> 0, idx |-> 0, saved |-> <<>>]

NoLast == [op |-> "none", s |-> NoStmt, blocks |-> <<>>, saved |-> <<>>, frames |-> <<>>]
Last(op, f) == [op |-> op, s |-> f.s, blocks |-> f.blocks, saved |-> f.saved,
                frames |-> <<>>]

NoResult == [res |-> "none", err |-> NoErr, msg |-> ""]
NoOutcome == [result |-> NoResult, module |-> NewModule]
NoExec == [status |-> "idle"]

Top == stack[Len(stack)]
Pop == SubSeq(stack, 1, Len(stack) - 1)
\* The stack with its top frame replaced by f and a call of build_statement(s)
\* on top of it.
Call(f, s) == Append(Append(Pop, f), Frame(s))

InBody == pc = "bodies" /\ j > 0
Lowering(kind, step) ==
    InBody /\ Len(stack) > 0 /\ Top.s.k = kind /\ Top.step = step

\* A `?` that returns an error, or a panic: r is the failed result, whose
\* instructions were inserted at the insertion point bld of m before the
\* failure.  Every active call of build_statement returns (or is unwound) at
\* once, and nothing else is done on the way out.
FailAt(r, m, bld, st) ==
    /\ pc' = IF r.res = "Err" THEN "err" ELSE "panic"
    /\ result' = [res |-> r.res, err |-> r.err, msg |-> r.msg]
    /\ module' = InsertAt(m, bld, r.code)
    /\ builder' = bld
    /\ symbol_table' = st
    /\ nextv' = r.nextv
    /\ stack' = <<>>
    /\ last' = [NoLast EXCEPT !.op = "Fail", !.frames = stack]
    /\ UNCHANGED <<prog, run, first, i, j, lowered, exec>>

\* A call of build_statement returns Ok(()): its frame f leaves the stack.
ReturnFrom(op, f) ==
    /\ stack' = Pop
    /\ last' = Last(op, f)

\* A variant of Fail in which the failing statement returns Ok(()) with what
\* it had emitted, and the lowering goes on.
FailIgnored(r) ==
    /\ module' = InsertAt(module, builder, r.code)
    /\ nextv' = r.nextv
    /\ ReturnFrom("Fail", Top)
    /\ UNCHANGED <<prog, run, first, pc, i, j, symbol_table, builder, result,
                   lowered, exec>>

\* The `?` at the insertion point the builder has now.
Fail(r) == FailAt(r, module, builder, symbol_table)

(***************************************************************************)
(* build_module, lines 66-113.                                             *)
(***************************************************************************)
\* for fn_dec in &self.declarations (lines 71-74)
RegisterDeclaration ==
    /\ pc = "declarations"
    /\ LET fn_dec == prog.declarations[i]
           pos == NextPos("declarations", i + 1)
       IN /\ module' = build_function_prototype(fn_dec, module)
          /\ symbol_table' = add_function(symbol_table, fn_dec.name,
                                          FunctionValue(fn_dec, module))
          /\ pc' = pos[1]
          /\ i' = pos[2]
    /\ last' = [NoLast EXCEPT !.op = "RegisterDeclaration"]
    /\ UNCHANGED <<prog, run, first, j, builder, nextv, stack, result, lowered, exec>>

\* A variant of RegisterDefinition that adds the prototype to the module and
\* leaves the function table alone.
RegisterDefinitionUnlisted ==
    /\ pc = "functions"
    /\ LET pos == NextPos("functions", i + 1)
       IN /\ module' = build_function_prototype(prog.functions[i].declaration, module)
          /\ pc' = pos[1]
          /\ i' = pos[2]
    /\ last' = [NoLast EXCEPT !.op = "RegisterDefinition"]
    /\ UNCHANGED <<prog, run, first, j, symbol_table, builder, nextv, stack, result,
                   lowered, exec>>

\* for fn_def in &self.functions (lines 76-81)
RegisterDefinition ==
    /\ pc = "functions"
    /\ LET fn_dec == prog.functions[i].declaration
           pos == NextPos("functions", i + 1)
       IN /\ module' = build_function_prototype(fn_dec, module)
          /\ symbol_table' = add_function(symbol_table, fn_dec.name,
                                          FunctionValue(fn_dec, module))
          /\ pc' = pos[1]
          /\ i' = pos[2]
    /\ last' = [NoLast EXCEPT !.op = "RegisterDefinition"]
    /\ UNCHANGED <<prog, run, first, j, builder, nextv, stack, result, lowered, exec>>

\* The head of the third loop, lines 84-103: the function-level scope, the
\* entry block, the parameters.
BeginDefinition ==
    /\ pc = "bodies" /\ j = 0
    /\ LET fn_def == prog.functions[i]
           st1 == push_scope(symbol_table)
           fn_value == get_function(st1, fn_def.declaration.name)
           function == fn_value.handle
           m1 == append_basic_block(module, function, "entry")
           bld == position_at_end([builder EXCEPT !.function = function],
                                  NumBlocks(m1, function))
           ps == build_params(fn_def.declaration.params, 1,
                              [b |-> Start(0), st |-> st1])
       IN IF fn_value = NoneVal
          THEN FailAt(Panic(Start(0), "called unwrap on a None value"),
                      module, builder, st1)
          ELSE /\ symbol_table' = ps.st
               /\ builder' = bld
               /\ module' = InsertAt(m1, bld, ps.b.code)
               /\ nextv' = ps.b.nextv
               /\ j' = 1
               /\ last' = [NoLast EXCEPT !.op = "BeginDefinition"]
               /\ UNCHANGED <<prog, run, first, pc, i, stack, result, lowered, exec>>

\* for statement in &fn_def.body: the call of build_statement (line 106)
BodyStatement ==
    /\ InBody /\ stack = <<>>
    /\ j <= Len(prog.functions[i].body)
    /\ stack' = <<Frame(prog.functions[i].body[j])>>
    /\ j' = j + 1
    /\ last' = [NoLast EXCEPT !.op = "BodyStatement"]
    /\ UNCHANGED <<prog, run, first, pc, i, symbol_table, module, builder, nextv,
                   result, lowered, exec>>

\* A variant of EndDefinition that leaves the scope of the function open.
EndDefinitionKeepScope ==
    /\ InBody /\ stack = <<>>
    /\ j > Len(prog.functions[i].body)
    /\ LET pos == NextPos("bodies", i + 1)
       IN pc' = pos[1] /\ i' = pos[2]
    /\ j' = 0
    /\ last' = [NoLast EXCEPT !.op = "EndDefinition"]
    /\ UNCHANGED <<prog, run, first, symbol_table, module, builder, nextv, stack,
                   result, lowered, exec>>

\* The end of one round of the third loop: symbol_table.pop_scope() (line 109)
EndDefinition ==
    /\ InBody /\ stack = <<>>
    /\ j > Len(prog.functions[i].body)
    /\ symbol_table' = pop_scope(symbol_table)
    /\ LET pos == NextPos("bodies", i + 1)
       IN pc' = pos[1] /\ i' = pos[2]
    /\ j' = 0
    /\ last' = [NoLast EXCEPT !.op = "EndDefinition"]
    /\ UNCHANGED <<prog, run, first, module, builder, nextv, stack, result, lowered,
                   exec>>

\* Ok(module) (line 112)
ReturnOk ==
    /\ pc = "return"
    /\ pc' = "done"
    /\ result' = [NoResult EXCEPT !.res = "Ok"]
    /\ last' = [NoLast EXCEPT !.op = "ReturnOk"]
    /\ UNCHANGED <<prog, run, first, i, j, symbol_table, module, builder, nextv,
                   stack, lowered, exec>>

(***************************************************************************)
(* build_statement, lines 189-286.                                         *)
(***************************************************************************)
Alloca(id, ty, name) == [op |-> "alloca", id |-> id, ty |-> ty, name |-> name]
Store(ptr, val) == [op |-> "store", ptr |-> ptr, val |-> val]
Br(dest) == [op |-> "br", dest |-> dest]
\* A variant of CondBr whose two targets are exchanged.
CondBrSwapped(cond, then_block, else_block) ==
    [op |-> "condbr", cond |-> cond, then_block |-> else_block,
     else_block |-> then_block]
CondBr(cond, then_block, else_block) ==
    [op |-> "condbr", cond |-> cond, then_block |-> then_block,
     else_block |-> else_block]
Ret(val) == [op |-> "ret", val |-> val]

\* condition.into_int_value() panics on a value that is no IntValue.
into_int_value(r) ==
    IF r.res # "Ok" \/ IsIntValue(r.val) THEN r ELSE Panic(r, "Found non-IntValue")

\* A variant of local_var_value that lowers the initializer with the name
\* already bound to the new slot.
local_var_value_bound(s, st, n) ==
    LET ty == to_llvm_type(s.datatype)
        b0 == Emit(Start(n + 1), Alloca(n, ty, s.name))
    IN IF s.value = NoExpr THEN b0
       ELSE LET r == void_check(build_expression(
                         s.value, push_value(st, s.name, Symbol(PtrVal(n), ty)), b0))
            IN IF r.res # "Ok" THEN r ELSE Emit(r, Store(PtrVal(n), r.val))

\* Self::LocalVar up to the binding: the slot, the initializer, the store.
local_var_value(s, st, n) ==
    LET ty == to_llvm_type(s.datatype)
        b0 == Emit(Start(n + 1), Alloca(n, ty, s.name))
    IN IF s.value = NoExpr THEN b0
       ELSE LET r == void_check(build_expression(s.value, st, b0))
            IN IF r.res # "Ok" THEN r ELSE Emit(r, Store(PtrVal(n), r.val))

\* Self::LocalVar (lines 198-211)
LowerLocalVar ==
    /\ Lowering("LocalVar", 0)
    /\ LET s == Top.s
           r == local_var_value(s, symbol_table, nextv)
       IN IF r.res # "Ok" THEN Fail(r)
          ELSE IF ~CanPushValue(symbol_table)
          THEN Fail(Panic(r, "There is no stack to put local var in"))
          ELSE /\ module' = InsertAt(module, builder, r.code)
               /\ nextv' = r.nextv
               /\ symbol_table' =
                      push_value(symbol_table, s.name,
                                 Symbol(PtrVal(nextv), to_llvm_type(s.datatype)))
               /\ ReturnFrom("LocalVar", Top)
               /\ UNCHANGED <<prog, run, first, pc, i, j, builder, result,
                              lowered, exec>>

\* Self::Return: the value, if any, and the return instruction.
return_value(s, st, n) ==
    IF s.expression = NoExpr THEN Emit(Start(n), Ret(NoneVal))
    ELSE LET r == void_check(build_expression(s.expression, st, Start(n)))
         IN IF r.res # "Ok" THEN r ELSE Emit(r, Ret(r.val))

\* Self::Return (lines 271-279)
LowerReturn ==
    /\ Lowering("Return", 0)
    /\ LET r == return_value(Top.s, symbol_table, nextv)
       IN IF r.res # "Ok" THEN Fail(r)
          ELSE /\ module' = InsertAt(module, builder, r.code)
               /\ nextv' = r.nextv
               /\ ReturnFrom("Return", Top)
               /\ UNCHANGED <<prog, run, first, pc, i, j, symbol_table, builder,
                              result, lowered, exec>>

\* A variant of LowerExpression in which an Assignment binds its target anew,
\* in the innermost scope.
LowerExpressionBinding ==
    /\ Lowering("Expression", 0)
    /\ LET e == Top.s.expression
           r == build_expression(e, symbol_table, Start(nextv))
       IN IF r.res # "Ok" THEN Fail(r)
          ELSE /\ module' = InsertAt(module, builder, r.code)
               /\ nextv' = r.nextv
               /\ symbol_table' =
                      IF e.k = "Assignment"
                      THEN push_value(symbol_table, e.ident,
                                      get_value(symbol_table, e.ident))
                      ELSE symbol_table
               /\ ReturnFrom("Expression", Top)
               /\ UNCHANGED <<prog, run, first, pc, i, j, builder, result,
                              lowered, exec>>

\* Self::Expression (lines 280-283): the value, void or not, is dropped.
LowerExpression ==
    /\ Lowering("Expression", 0)
    /\ LET r == build_expression(Top.s.expression, symbol_table, Start(nextv))
       IN IF r.res # "Ok" THEN Fail(r)
          ELSE /\ module' = InsertAt(module, builder, r.code)
               /\ nextv' = r.nextv
               /\ ReturnFrom("Expression", Top)
               /\ UNCHANGED <<prog, run, first, pc, i, j, symbol_table, builder,
                              result, lowered, exec>>

\* Self::Conditional, lines 213-227: the condition, the three blocks, the
\* conditional branch, and the call that lowers the then-branch.
ConditionalBegin ==
    /\ Lowering("Conditional", 0)
    /\ LET s == Top.s
           function == builder.function
           c == void_check(build_expression(s.condition, symbol_table, Start(nextv)))
           n == NumBlocks(module, function)
           then_block == n + 1
           else_block == n + 2
           merge_block == n + 3
           m3 == append_basic_block(
                     append_basic_block(
                         append_basic_block(module, function, "then"),
                         function, "else"),
                     function, "merge")
           ci == into_int_value(c)
       IN IF c.res # "Ok" THEN Fail(c)
          ELSE IF ci.res # "Ok" THEN FailAt(ci, m3, builder, symbol_table)
          ELSE /\ module' = InsertAt(m3, builder,
                                     Append(c.code, CondBr(c.val, then_block, else_block)))
               /\ nextv' = c.nextv
               /\ builder' = position_at_end(builder, then_block)
               /\ stack' = Call([Top EXCEPT !.step = 1, !.pre = builder.block,
                                   !.blocks = <<then_block, else_block, merge_block>>],
                                s.block)
               /\ last' = Last("ConditionalBegin", Top)
               /\ UNCHANGED <<prog, run, first, pc, i, j, symbol_table, result,
                              lowered, exec>>

\* The record of a Conditional or a Loop whose lowering returns: its statement,
\* its three blocks, the block that was the insertion point when it began (pre)
\* and the one that is when it ends (tail), and the number of blocks by then.
Lowered(kind, f) ==
    [kind |-> kind, s |-> f.s, function |-> builder.function, blocks |-> f.blocks,
     pre |-> f.pre, tail |-> builder.block,
     hi |-> NumBlocks(module, builder.function)]

\* A variant of conditional_without_else that leaves the else block empty
\* when there is no else-branch.
conditional_without_else_bare(m, bld, f) ==
    [module |-> InsertAt(m, bld, <<Br(f.blocks[3])>>),
     builder |-> position_at_end(bld, f.blocks[3])]

\* Lines 228-237 with no else-branch: the branch that ends the then-path, the
\* else block and its branch, and merge becomes the insertion point.
conditional_without_else(m, bld, f) ==
    [module |-> InsertAt(InsertAt(m, bld, <<Br(f.blocks[3])>>),
                         position_at_end(bld, f.blocks[2]), <<Br(f.blocks[3])>>),
     builder |-> position_at_end(bld, f.blocks[3])]

\* Self::Conditional, lines 228-233, once the then-branch is lowered.
ConditionalElse ==
    /\ Lowering("Conditional", 1)
    /\ LET f == Top
           w == conditional_without_else(module, builder, f)
       IN IF f.s.else_block = NoStmt
          THEN /\ module' = w.module
               /\ builder' = w.builder
               /\ ReturnFrom("Conditional", f)
               /\ lowered' = Append(lowered, Lowered("Conditional", f))
          ELSE /\ module' = InsertAt(module, builder, <<Br(f.blocks[3])>>)
               /\ builder' = position_at_end(builder, f.blocks[2])
               /\ stack' = Call([f EXCEPT !.step = 2], f.s.else_block)
               /\ last' = Last("ConditionalElse", f)
               /\ UNCHANGED lowered
    /\ UNCHANGED <<prog, run, first, pc, i, j, symbol_table, nextv, result, exec>>

\* Lines 234-237 after an else-branch: its branch to merge, and merge becomes
\* the insertion point.
conditional_end(m, bld, f) ==
    [module |-> InsertAt(m, bld, <<Br(f.blocks[3])>>),
     builder |-> position_at_end(bld, f.blocks[3])]

\* Self::Conditional, lines 234-237, once the else-branch is lowered.
ConditionalEnd ==
    /\ Lowering("Conditional", 2)
    /\ LET w == conditional_end(module, builder, Top)
       IN /\ module' = w.module
          /\ builder' = w.builder
    /\ ReturnFrom("Conditional", Top)
    /\ lowered' = Append(lowered, Lowered("Conditional", Top))
    /\ UNCHANGED <<prog, run, first, pc, i, j, symbol_table, nextv, result, exec>>

\* A variant of loop_enter whose first branch enters the body block.
loop_enter_body_first(m, bld) ==
    LET function == bld.function
        n == NumBlocks(m, function)
        m3 == append_basic_block(
                  append_basic_block(
                      append_basic_block(m, function, "loop"),
                      function, "body"),
                  function, "continue")
    IN [module |-> InsertAt(m3, bld, <<Br(n + 2)>>),
        builder |-> position_at_end(bld, n + 1),
        blocks |-> <<n + 1, n + 2, n + 3>>]

\* Self::Loop, lines 240-245: the three blocks and the branch into the header.
loop_enter(m, bld) ==
    LET function == bld.function
        n == NumBlocks(m, function)
        m3 == append_basic_block(
                  append_basic_block(
                      append_basic_block(m, function, "loop"),
                      function, "body"),
                  function, "continue")
    IN [module |-> InsertAt(m3, bld, <<Br(n + 1)>>),
        builder |-> position_at_end(bld, n + 1),
        blocks |-> <<n + 1, n + 2, n + 3>>]

\* A variant of LoopBegin that opens a scope for the body.
LoopBeginScoped ==
    /\ Lowering("Loop", 0)
    /\ LET s == Top.s
           w == loop_enter(module, builder)
           c == void_check(build_expression(s.condition, symbol_table, Start(nextv)))
           ci == into_int_value(c)
       IN IF ci.res # "Ok" THEN FailAt(ci, w.module, w.builder, symbol_table)
          ELSE /\ module' = InsertAt(w.module, w.builder,
                                     Append(c.code,
                                            CondBr(c.val, w.blocks[2], w.blocks[3])))
               /\ nextv' = c.nextv
               /\ builder' = position_at_end(w.builder, w.blocks[2])
               /\ symbol_table' = push_scope(symbol_table)
               /\ stack' = Call([Top EXCEPT !.step = 1, !.pre = builder.block,
                                   !.blocks = w.blocks],
                                s.body)
               /\ last' = Last("LoopBegin", Top)
               /\ UNCHANGED <<prog, run, first, pc, i, j, result, lowered, exec>>

\* Self::Loop, lines 240-257: up to the call that lowers the body.
LoopBegin ==
    /\ Lowering("Loop", 0)
    /\ LET s == Top.s
           w == loop_enter(module, builder)
           c == void_check(build_expression(s.condition, symbol_table, Start(nextv)))
           ci == into_int_value(c)
       IN IF ci.res # "Ok" THEN FailAt(ci, w.module, w.builder, symbol_table)
          ELSE /\ module' = InsertAt(w.module, w.builder,
                                     Append(c.code,
                                            CondBr(c.val, w.blocks[2], w.blocks[3])))
               /\ nextv' = c.nextv
               /\ builder' = position_at_end(w.builder, w.blocks[2])
               /\ stack' = Call([Top EXCEPT !.step = 1, !.pre = builder.block,
                                   !.blocks = w.blocks],
                                s.body)
               /\ last' = Last("LoopBegin", Top)
               /\ UNCHANGED <<prog, run, first, pc, i, j, symbol_table, result,
                              lowered, exec>>

\* A variant of loop_end whose back edge enters the body block.
loop_end_to_body(m, bld, f) ==
    [module |-> InsertAt(m, bld, <<Br(f.blocks[2])>>),
     builder |-> position_at_end(bld, f.blocks[3])]

\* Lines 258-260: the branch back to the header, and the block after the loop
\* becomes the insertion point.
loop_end(m, bld, f) ==
    [module |-> InsertAt(m, bld, <<Br(f.blocks[1])>>),
     builder |-> position_at_end(bld, f.blocks[3])]

\* Self::Loop, lines 258-261, once the body is lowered.
LoopEnd ==
    /\ Lowering("Loop", 1)
    /\ LET w == loop_end(module, builder, Top)
       IN /\ module' = w.module
          /\ builder' = w.builder
    /\ ReturnFrom("Loop", Top)
    /\ lowered' = Append(lowered, Lowered("Loop", Top))
    /\ UNCHANGED <<prog, run, first, pc, i, j, symbol_table, nextv, result, exec>>

\* A variant of BlockBegin that opens no scope.
BlockBeginNoScope ==
    /\ Lowering("Block", 0)
    /\ stack' = Append(Pop, [Top EXCEPT !.step = 1, !.idx = 1,
                                        !.saved = symbol_table.scope_stack])
    /\ last' = Last("BlockBegin", Top)
    /\ UNCHANGED <<prog, run, first, pc, i, j, symbol_table, module, builder, nextv,
                   result, lowered, exec>>

\* Self::Block, line 264: the scope is opened.
BlockBegin ==
    /\ Lowering("Block", 0)
    /\ symbol_table' = push_scope(symbol_table)
    /\ stack' = Append(Pop, [Top EXCEPT !.step = 1, !.idx = 1,
                                        !.saved = symbol_table.scope_stack])
    /\ last' = Last("BlockBegin", Top)
    /\ UNCHANGED <<prog, run, first, pc, i, j, module, builder, nextv, result,
                   lowered, exec>>

\* for statement in statements: the call of build_statement (line 266)
BlockStatement ==
    /\ Lowering("Block", 1)
    /\ Top.idx <= Len(Top.s.statements)
    /\ stack' = Call([Top EXCEPT !.idx = @ + 1], Top.s.statements[Top.idx])
    /\ last' = Last("BlockStatement", Top)
    /\ UNCHANGED <<prog, run, first, pc, i, j, symbol_table, module, builder, nextv,
                   result, lowered, exec>>

\* Self::Block, lines 268-269: the scope is closed.
BlockEnd ==
    /\ Lowering("Block", 1)
    /\ Top.idx > Len(Top.s.statements)
    /\ symbol_table' = pop_scope(symbol_table)
    /\ ReturnFrom("Block", Top)
    /\ UNCHANGED <<prog, run, first, pc, i, j, module, builder, nextv, result,
                   lowered, exec>>

(***************************************************************************)
(* The caller: a second call of build_module on the same tree, and an      *)
(* execution of the function main of a module that was returned.           *)
(***************************************************************************)
Returned == pc \in {"done", "err", "panic"}

\* What a call of build_module gave its caller: the module with Ok, the error
\* alone otherwise.
Outcome ==
    [result |-> result, module |-> IF result.res = "Ok" THEN module ELSE NewModule]

\* A variant of BuildModuleAgain that keeps the module of the first call.
BuildModuleAgainSameModule ==
    /\ Returned /\ run = 1 /\ exec.status = "idle"
    /\ first' = Outcome
    /\ run' = 2
    /\ builder' = NewBuilder
    /\ symbol_table' = SymbolTable_default
    /\ LET pos == NextPos("declarations", 1)
       IN pc' = pos[1] /\ i' = pos[2]
    /\ j' = 0
    /\ nextv' = 0
    /\ stack' = <<>>
    /\ result' = NoResult
    /\ last' = [NoLast EXCEPT !.op = "BuildModuleAgain"]
    /\ lowered' = <<>>
    /\ UNCHANGED <<prog, module, exec>>

\* Lines 67-69: every call starts from a builder, a module and a symbol table
\* of its own.
BuildModuleAgain ==
    /\ Returned /\ run = 1 /\ exec.status = "idle"
    /\ first' = Outcome
    /\ run' = 2
    /\ builder' = NewBuilder
    /\ module' = NewModule
    /\ symbol_table' = SymbolTable_default
    /\ LET pos == NextPos("declarations", 1)
       IN pc' = pos[1] /\ i' = pos[2]
    /\ j' = 0
    /\ nextv' = 0
    /\ stack' = <<>>
    /\ result' = NoResult
    /\ last' = [NoLast EXCEPT !.op = "BuildModuleAgain"]
    /\ lowered' = <<>>
    /\ UNCHANGED <<prog, exec>>

FunctionNamed(m, name) ==
    CHOOSE h \in 1..Len(m.functions) : m.functions[h].name = name

NoRegs == [n \in {} |-> 0]

\* The caller runs main from its entry block.
ExecBegin ==
    /\ pc = "done" /\ prog.execute /\ exec.status = "idle"
    /\ \E h \in 1..Len(module.functions) : module.functions[h].name = "main"
    /\ exec' = [status |-> "running", function |-> FunctionNamed(module, "main"),
                block |-> 1, ip |-> 1, regs |-> NoRegs, mem |-> NoRegs,
                visits |-> <<1>>, evals |-> NoRegs, steps |-> 0]
    /\ UNCHANGED <<prog, run, first, pc, i, j, symbol_table, module, builder, nextv,
                   stack, result, last, lowered>>

\* The bits of an operand in the machine state x.
Operand(x, v) == IF v.k = "const" THEN v.v ELSE x.regs[v.id]
HasValue(x, v) == v.k = "const" \/ (v.k = "reg" /\ v.id \in DOMAIN x.regs)

Count(f, n) == IF n \in DOMAIN f THEN f[n] ELSE 0
Bump(f, n) == (n :> Count(f, n) + 1) @@ f

\* Control enters block b.
Enter(x, b) == [x EXCEPT !.block = b, !.ip = 1, !.visits = Append(@, b)]
Advance(x) == [x EXCEPT !.ip = @ + 1]
Halt(x, status) == [x EXCEPT !.status = status]

\* One instruction of the emitted function, executed.  A block that ends
\* without a terminator, a value that was never defined and a call leave
\* the defined behaviour that this machine follows: it halts there.
Execute(x, ins) ==
    CASE ins.op = "alloca" -> Advance(x)
      [] ins.op = "store" ->
            IF HasValue(x, ins.val)
            THEN Advance([x EXCEPT !.mem = (ins.ptr.id :> Operand(x, ins.val)) @@ @])
            ELSE Halt(x, "undefined")
      [] ins.op = "load" ->
            IF ins.ptr.id \in DOMAIN x.mem
            THEN Advance([x EXCEPT !.regs = (ins.id :> x.mem[ins.ptr.id]) @@ @])
            ELSE Halt(x, "undefined")
      [] ins.op \in Evaluated ->
            IF HasValue(x, ins.l) /\ HasValue(x, ins.r)
            THEN Advance([x EXCEPT !.regs =
                     (ins.id :> EvalInt(ins.op, Operand(x, ins.l), Operand(x, ins.r),
                                        ins.l.ty)) @@ @])
            ELSE Halt(x, "undefined")
      [] ins.op = "br" -> Enter(x, ins.dest)
      [] ins.op = "condbr" ->
            IF HasValue(x, ins.cond)
            THEN Enter([x EXCEPT !.evals = Bump(@, x.block)],
                       IF Operand(x, ins.cond) = 1 THEN ins.then_block
                       ELSE ins.else_block)
            ELSE Halt(x, "undefined")
      [] ins.op = "ret" -> Halt(x, "returned")
      [] OTHER -> Halt(x, "unsupported")

\* The next instruction of the running function.
ExecStep ==
    /\ exec.status = "running"
    /\ exec.steps < MaxSteps
    /\ LET instrs == module.functions[exec.function].blocks[exec.block].instrs
           x == [exec EXCEPT !.steps = @ + 1]
       IN exec' = IF exec.ip > Len(instrs) THEN Halt(x, "unterminated")
                  ELSE Execute(x, instrs[exec.ip])
    /\ UNCHANGED <<prog, run, first, pc, i, j, symbol_table, module, builder, nextv,
                   stack, result, last, lowered>>

(***************************************************************************)
(* The typed modules that are lowered.                                     *)
(***************************************************************************)
Void_v == FunctionDeclaration("v", <<>>, "None")
Int_h == FunctionDeclaration("h", <<>>, "I32")
Int_g == FunctionDeclaration("g", <<Param("a", "I32")>>, "I32")

P == LValueE("p")
PLess3 == BinaryOperation(P, "Less", IntegerLiteral(3))
Increment(name) ==
    ExpressionS(Assignment(name, BinaryOperation(LValueE(name), "Add",
                                                 IntegerLiteral(1))))

\* Statements without a nested statement: the last two fail, with
\* VoidOperation and with TypeMismatch.
Leaves ==
    {LocalVar("x", "I32", P),
     Return(P),
     Increment("p"),
     LocalVar("y", "I32", FunctionCall("v", <<>>)),
     ExpressionS(Assignment("p", BooleanLiteral(TRUE)))}

Tails == {Return(NoExpr), Increment("p")}

\* Every way of nesting one of the statements S one level deeper.
Nest(S) ==
    S \cup {Conditional(PLess3, s, NoStmt) : s \in S}
      \cup {Conditional(PLess3, s, e) : s \in S, e \in Tails}
      \cup {Conditional(PLess3, Increment("p"), s) : s \in S}
      \cup {Loop(PLess3, s) : s \in S}
      \cup {Block(<<s>>) : s \in S}
      \cup {Block(<<s, t>>) : s \in S, t \in Tails}

RECURSIVE Statements(_)
Statements(d) == IF d = 0 THEN Leaves ELSE Nest(Statements(d - 1))

Decl_f == FunctionDeclaration("f", <<Param("p", "I32")>>, "I32")

\* One definition f(p: i32) whose body is a statement, alone or before a return.
StructureModules ==
    {Module(<<Void_v>>, <<FunctionDefinition(Decl_f, body)>>, FALSE) :
        body \in {<<s>> : s \in Statements(MaxDepth)}
                   \cup {<<s, Return(P)>> : s \in Statements(MaxDepth)}}
    \cup {Module(<<>>, <<FunctionDefinition(Decl_f, <<>>)>>, FALSE)}

\* Modules of up to MaxDefs definitions, in every order, each calling one
\* function: itself, another definition, a declaration, or a name that the
\* module does not hold.
NamePool == <<"f1", "f2", "f3", "f4", "f5", "f6">>
DefNames == {NamePool[n] : n \in 1..MaxDefs}
Orders ==
    {o \in UNION {[1..n -> DefNames] : n \in 1..MaxDefs} :
        \A a, b \in DOMAIN o : a # b => o[a] # o[b]}
CallDefinition(name, callee) ==
    FunctionDefinition(FunctionDeclaration(name, <<>>, "None"),
                       <<ExpressionS(FunctionCall(callee, <<>>))>>)
CallModules ==
    UNION {
        {Module(D, [n \in DOMAIN o |-> CallDefinition(o[n], c[n])], FALSE) :
            c \in [DOMAIN o ->
                     {o[n] : n \in DOMAIN o} \cup {D[n].name : n \in DOMAIN D}
                     \cup {"undeclared"}]} :
        D \in {<<>>, <<Int_h>>}, o \in Orders}

\* f(p: T1, q: T2) { p = q; } for every pair of primitive types, and the
\* assignment of each kind of literal.
AssignModules ==
    {Module(<<>>,
            <<FunctionDefinition(
                FunctionDeclaration("f", <<Param("p", t1), Param("q", t2)>>, "None"),
                <<ExpressionS(Assignment("p", LValueE("q")))>>)>>,
            FALSE) : t1 \in Primitives, t2 \in Primitives}
    \cup
    {Module(<<>>,
            <<FunctionDefinition(
                FunctionDeclaration("f", <<Param("p", t1)>>, "None"),
                <<ExpressionS(Assignment("p", e))>>)>>,
            FALSE) :
        t1 \in Primitives,
        e \in {IntegerLiteral(1), BooleanLiteral(TRUE), FloatLiteral(25)}}

\* An operand in every place that consumes a value: the call of the function v
\* that returns nothing, the same inside a unary operation, and the call of h
\* that returns an i32.
Operands ==
    {FunctionCall("v", <<>>), UnaryOperation("Negate", FunctionCall("v", <<>>)),
     FunctionCall("h", <<>>), UnaryOperation("Negate", FunctionCall("h", <<>>))}
Consumers(e) ==
    {LocalVar("x", "I32", e),
     Conditional(e, Return(NoExpr), NoStmt),
     Loop(e, Increment("p")),
     Return(e),
     ExpressionS(Assignment("p", e)),
     ExpressionS(BinaryOperation(e, "Add", P)),
     ExpressionS(BinaryOperation(P, "Add", e)),
     ExpressionS(FunctionCall("g", <<e>>)),
     ExpressionS(e)}
OperandModules ==
    {Module(<<Void_v, Int_h, Int_g>>, <<FunctionDefinition(Decl_f, <<s>>)>>, FALSE) :
        s \in UNION {Consumers(e) : e \in Operands}}

\* One binary operation on each pairing of an integer and a float operand,
\* literals and parameters.
BinaryOperands ==
    {IntegerLiteral(5), FloatLiteral(25), LValueE("p"), LValueE("q")}
BinaryModules ==
    {Module(<<>>,
            <<FunctionDefinition(
                FunctionDeclaration("f", <<Param("p", "I32"), Param("q", "F32")>>,
                                    "None"),
                <<ExpressionS(BinaryOperation(l, "Add", r))>>)>>,
            FALSE) : l \in BinaryOperands, r \in BinaryOperands}

\* n: i32 = start; while (n < limit) { n = n + 1; }, with or without a final
\* return; the emitted main is executed.
LoopBody(start, limit) ==
    <<LocalVar("n", "I32", IntegerLiteral(start)),
      Loop(BinaryOperation(LValueE("n"), "Less", IntegerLiteral(limit)),
           Block(<<Increment("n")>>))>>
LoopModules ==
    {Module(<<>>,
            <<FunctionDefinition(FunctionDeclaration("main", <<>>, "None"),
                                 LoopBody(start, limit) \o tail)>>,
            TRUE) :
        start \in 0..MaxStart, limit \in 0..MaxLimit,
        tail \in {<<>>, <<Return(NoExpr)>>}}

\* x: i32 = start; if (x > bound) { x = x + 1; } else { x = 0; }, the arms as
\* Blocks or bare, with or without a final return; the emitted main is executed.
Arms(then_s, else_s) ==
    {<<then_s, else_s>>, <<Block(<<then_s>>), Block(<<else_s>>)>>}
CondBody(start, bound, arms) ==
    <<LocalVar("x", "I32", IntegerLiteral(start)),
      Conditional(BinaryOperation(LValueE("x"), "Greater", IntegerLiteral(bound)),
                  arms[1], arms[2])>>
CondModules ==
    {Module(<<>>,
            <<FunctionDefinition(FunctionDeclaration("main", <<>>, "None"),
                                 CondBody(start, bound, arms) \o tail)>>,
            TRUE) :
        start \in 0..MaxLimit, bound \in 0..MaxStart,
        arms \in Arms(Increment("x"),
                      ExpressionS(Assignment("x", IntegerLiteral(0)))),
        tail \in {<<>>, <<Return(NoExpr)>>}}

\* Two definitions, one of them with a statement that fails nested up to
\* MaxDepth deep and followed by a return of 7, the other one sound; the
\* failing one comes first or second.  BadVoid fails with VoidOperation after
\* the slot of y and the call of v were emitted, BadType with TypeMismatch
\* after the slot of z was emitted.
BadVoid == LocalVar("y", "I32", FunctionCall("v", <<>>))
BadType == LocalVar("z", "I32", Assignment("p", BooleanLiteral(TRUE)))
RECURSIVE Nested(_, _)
Nested(S, d) == IF d = 0 THEN S ELSE Nest(Nested(S, d - 1))
Sound(name) ==
    FunctionDefinition(FunctionDeclaration(name, <<Param("p", "I32")>>, "I32"),
                       <<Return(P)>>)
Failing(name, s) ==
    FunctionDefinition(FunctionDeclaration(name, <<Param("p", "I32")>>, "I32"),
                       <<s, Return(IntegerLiteral(7))>>)
ErrorModules ==
    UNION {
        {Module(<<Void_v>>, <<Failing("f1", s), Sound("f2")>>, FALSE),
         Module(<<Void_v>>, <<Sound("f1"), Failing("f2", s)>>, FALSE)} :
        s \in Nested({BadVoid, BadType}, MaxDepth)}

\* f(p: i32) { [x: i32 = 1;] { [x: i8;] { [x: i16;] x; } x; } x; w: i32; }: x
\* declared, or not, at each of three depths, with a type that tells the
\* declarations apart, and read at each depth, innermost first.
Declared(d, s) == IF d THEN <<s>> ELSE <<>>
ReadX == ExpressionS(LValueE("x"))
ScopeBody(d0, d1, d2) ==
    Declared(d0, LocalVar("x", "I32", IntegerLiteral(1)))
    \o <<Block(Declared(d1, LocalVar("x", "I8", NoExpr))
               \o <<Block(Declared(d2, LocalVar("x", "I16", NoExpr)) \o <<ReadX>>),
                    ReadX>>),
         ReadX, LocalVar("w", "I32", NoExpr)>>
ScopeModule(d0, d1, d2) ==
    Module(<<>>, <<FunctionDefinition(Decl_f, ScopeBody(d0, d1, d2))>>, FALSE)
ScopeModules == {ScopeModule(d0, d1, d2) : d0 \in BOOLEAN, d1 \in BOOLEAN, d2 \in BOOLEAN}

\* Straight-line bodies `l + r; return k(x, y);` whose operands are calls of
\* the functions a and b, bare or as the arguments of k: the order of the
\* calls in the entry block shows the order in which the operands were lowered.
Int_a == FunctionDeclaration("a", <<>>, "I32")
Int_b == FunctionDeclaration("b", <<>>, "I32")
Int_k == FunctionDeclaration("k", <<Param("m", "I32"), Param("n", "I32")>>, "I32")
CallOf(name) == FunctionCall(name, <<>>)
Leaf == {CallOf("a"), CallOf("b")}
CallOperands == Leaf \cup {FunctionCall("k", <<x, y>>) : x, y \in Leaf}
OrderModules ==
    {Module(<<Int_a, Int_b, Int_k>>,
            <<FunctionDefinition(Decl_f,
                <<ExpressionS(BinaryOperation(l, "Add", r)), Return(e)>>)>>,
            FALSE) :
        l \in CallOperands, r \in CallOperands, e \in CallOperands \ Leaf}

\* x: i32 = 0; c: i32 = left; c op <right>; with op one of the logical and
\* bitwise and/or and the right operand an assignment to x (the emitted main
\* is executed) or a call of h.
LogicOps == {"LogicAnd", "LogicOr", "BitAnd", "BitOr"}
LogicBody(left, op, right) ==
    <<LocalVar("x", "I32", IntegerLiteral(0)),
      LocalVar("c", "I32", IntegerLiteral(left)),
      ExpressionS(BinaryOperation(LValueE("c"), op, right))>>
SetsX == Assignment("x", IntegerLiteral(1))
LogicModules ==
    {Module(<<Int_h>>,
            <<FunctionDefinition(FunctionDeclaration("main", <<>>, "None"),
                                 LogicBody(left, op, right) \o tail)>>,
            right = SetsX) :
        left \in 0..MaxStart, op \in LogicOps, right \in {SetsX, CallOf("h")},
        tail \in {<<>>, <<Return(NoExpr)>>}}

\* owner(a: i32) { x: i32 = 1; { y: i32 = 2; } } and reader(b: i32) { name; }
\* for the name of each parameter and local of the two, in either order.
Owner ==
    FunctionDefinition(FunctionDeclaration("owner", <<Param("a", "I32")>>, "None"),
                       <<LocalVar("x", "I32", IntegerLiteral(1)),
                         Block(<<LocalVar("y", "I32", IntegerLiteral(2))>>)>>)
Reader(name) ==
    FunctionDefinition(FunctionDeclaration("reader", <<Param("b", "I32")>>, "None"),
                       <<ExpressionS(LValueE(name))>>)
OwnNames == {"a", "x", "y", "b"}
OwnerModules ==
    UNION {{Module(<<>>, <<Owner, Reader(name)>>, FALSE),
            Module(<<>>, <<Reader(name), Owner>>, FALSE)} : name \in OwnNames}

\* f(p: i32) { [x: i32 = 1;] x: i32 [= x + 1 | = x]; x; }, the second
\* declaration and the read after it in the body itself or in a Block that is
\* followed by another read of x.
Initializers ==
    {NoExpr, LValueE("x"), BinaryOperation(LValueE("x"), "Add", IntegerLiteral(1))}
RebindBody(prior, inner, init) ==
    Declared(prior, LocalVar("x", "I32", IntegerLiteral(1)))
    \o (IF inner
        THEN <<Block(<<LocalVar("x", "I32", init), ReadX>>), ReadX>>
        ELSE <<LocalVar("x", "I32", init), ReadX>>)
RebindModule(prior, inner, init) ==
    Module(<<>>, <<FunctionDefinition(Decl_f, RebindBody(prior, inner, init))>>, FALSE)
RebindModules ==
    {RebindModule(prior, inner, init) :
        prior \in BOOLEAN, inner \in BOOLEAN, init \in Initializers}

Programs ==
    RebindModules \cup OwnerModules \cup LogicModules \cup OrderModules \cup StructureModules \cup CallModules \cup AssignModules \cup OperandModules
    \cup BinaryModules \cup LoopModules \cup CondModules \cup ErrorModules
    \cup ScopeModules

\* The invariant of a typed module: every function name is unique across its
\* declarations and definitions together.
UniqueNames(m) ==
    LET names == [n \in 1..Len(m.declarations) |-> m.declarations[n].name]
                 \o [n \in 1..Len(m.functions) |-> m.functions[n].declaration.name]
    IN \A a, b \in 1..Len(names) : a # b => names[a] # names[b]

(***************************************************************************)
(* The specification.                                                      *)
(***************************************************************************)
Init ==
    /\ prog \in {m \in Programs : UniqueNames(m)}
    /\ run = 1
    /\ first = NoOutcome
    /\ pc = NextPos("declarations", 1)[1]
    /\ i = NextPos("declarations", 1)[2]
    /\ j = 0
    /\ symbol_table = SymbolTable_default
    /\ module = NewModule
    /\ builder = NewBuilder
    /\ nextv = 0
    /\ stack = <<>>
    /\ result = NoResult
    /\ last = NoLast
    /\ lowered = <<>>
    /\ exec = NoExec

Next ==
    \/ RegisterDeclaration
    \/ RegisterDefinition
    \/ BeginDefinition
    \/ BodyStatement
    \/ EndDefinition
    \/ ReturnOk
    \/ LowerLocalVar
    \/ LowerReturn
    \/ LowerExpression
    \/ ConditionalBegin
    \/ ConditionalElse
    \/ ConditionalEnd
    \/ LoopBegin
    \/ LoopEnd
    \/ BlockBegin
    \/ BlockStatement
    \/ BlockEnd
    \/ BuildModuleAgain
    \/ ExecBegin
    \/ ExecStep

Spec == Init /\ [][Next]_vars

(***************************************************************************)
(* The control-flow graph of an emitted function.  As in LLVM, the         *)
(* terminator of a block is its last instruction when that is a branch, a  *)
(* conditional branch or a return, and the successors of the block are the *)
(* targets of its terminator.                                              *)
(***************************************************************************)
IsTerminator(ins) == ins.op \in {"br", "condbr", "ret"}

Terminators(blk) == {n \in 1..Len(blk.instrs) : IsTerminator(blk.instrs[n])}

WellFormedBlock(blk) ==
    /\ Len(blk.instrs) > 0
    /\ Terminators(blk) = {Len(blk.instrs)}

Successors(fn, b) ==
    LET instrs == fn.blocks[b].instrs
        t == instrs[Len(instrs)]
    IN IF Len(instrs) = 0 THEN {}
       ELSE CASE t.op = "br" -> {t.dest}
              [] t.op = "condbr" -> {t.then_block, t.else_block}
              [] OTHER -> {}

\* The blocks reached from the blocks S along at most n edges.
RECURSIVE ReachedIn(_, _, _)
ReachedIn(fn, S, n) ==
    IF n = 0 THEN S
    ELSE ReachedIn(fn, S \cup UNION {Successors(fn, b) : b \in S}, n - 1)

Reachable(fn, from, to) == to \in ReachedIn(fn, {from}, Len(fn.blocks))

\* The functions of the module that were given a body.
Defined == {h \in 1..Len(module.functions) : Len(module.functions[h].blocks) > 0}

(***************************************************************************)
(* C1.  Every function that build_module lowered successfully has exactly  *)
(* one entry block, and each of its blocks is non-empty and holds exactly  *)
(* one terminator, its last instruction.                                   *)
(* The code emits no terminator of its own at the end of a body and emits  *)
(* the branch to merge (or to the loop header) after a return, so this     *)
(* fails: C1_WellFormed is the statement, TLC finds it violated.           *)
(***************************************************************************)
C1_WellFormed ==
    pc = "done" =>
        \A h \in Defined :
            LET fn == module.functions[h]
            IN /\ Cardinality({b \in 1..Len(fn.blocks) :
                                   fn.blocks[b].label = "entry"}) = 1
               /\ fn.blocks[1].label = "entry"
               /\ \A b \in 1..Len(fn.blocks) : WellFormedBlock(fn.blocks[b])

(***************************************************************************)
(* C2.  For every Conditional whose lowering returned, with or without an  *)
(* else-branch and whatever is nested in its arms, merge is reachable in   *)
(* the emitted graph from the then block and from the else block; and when *)
(* the lowering of a Conditional returns, merge is the insertion point.    *)
(***************************************************************************)
C2_MergeReachable ==
    /\ \A n \in 1..Len(lowered) :
          LET c == lowered[n]
              fn == module.functions[c.function]
          IN c.kind = "Conditional" =>
                /\ Reachable(fn, c.blocks[1], c.blocks[3])
                /\ Reachable(fn, c.blocks[2], c.blocks[3])
    /\ last.op = "Conditional" => builder.block = last.blocks[3]

\* A Conditional without an else-branch, with a Conditional or a Loop nested
\* in its then-branch, has just been lowered.
C2_Witness ==
    /\ last.op = "Conditional"
    /\ last.s.else_block = NoStmt
    /\ last.s.block.k \in {"Conditional", "Loop"}
    /\ lowered[Len(lowered)].hi > last.blocks[3]
    /\ builder.block = last.blocks[3]

(***************************************************************************)
(* C3.  For every Loop whose lowering returned, whatever its body: the     *)
(* block before the loop and the end of the body both branch to the header *)
(* and nowhere else, no other edge enters the blocks of the loop, and the  *)
(* only edge that leaves them is the condition-false edge of the header's  *)
(* conditional branch, to the exit block.  The blocks of the loop are the  *)
(* header, the body and the blocks created while the body was lowered.     *)
(***************************************************************************)
LoopBlocks(c) == {c.blocks[1], c.blocks[2]} \cup ((c.blocks[3] + 1)..c.hi)

LoopShape(c) ==
    LET fn == module.functions[c.function]
        header == c.blocks[1]
        body == c.blocks[2]
        exit == c.blocks[3]
        inside == LoopBlocks(c)
        hi == fn.blocks[header].instrs
        t == hi[Len(hi)]
    IN /\ Successors(fn, c.pre) = {header}
       /\ Successors(fn, c.tail) = {header}
       /\ c.tail \in inside
       /\ t.op = "condbr" /\ t.then_block = body /\ t.else_block = exit
       /\ \A b \in inside : \A d \in Successors(fn, b) :
             d \in inside \/ (b = header /\ d = exit)
       /\ \A b \in (1..Len(fn.blocks)) \ inside :
             \A d \in Successors(fn, b) \cap inside : b = c.pre /\ d = header

C3_LoopEdges ==
    \A n \in 1..Len(lowered) : lowered[n].kind = "Loop" => LoopShape(lowered[n])

\* A Loop whose body is a Conditional or a Loop has been lowered, and blocks
\* were appended to the function after it.
C3_Witness ==
    \E n \in 1..Len(lowered) :
        /\ lowered[n].kind = "Loop"
        /\ lowered[n].s.body.k \in {"Conditional", "Loop"}
        /\ lowered[n].hi > lowered[n].blocks[3]
        /\ pc = "done"

(***************************************************************************)
(* C4.  Scope pushes and pops are paired on every path: when the lowering  *)
(* of a Block or of a definition ends, with Ok or with a VoidOperation or  *)
(* TypeMismatch error of a nested statement, the scope stack is what it    *)
(* was just before the Block or the definition was entered.                *)
(* The code returns the error with `?` before it reaches pop_scope, so     *)
(* this fails on the error path: C4_ScopesPaired is the statement, TLC     *)
(* finds it violated.                                                      *)
(***************************************************************************)
C4_ScopesPaired ==
    /\ last.op = "Block" => symbol_table.scope_stack = last.saved
    /\ last.op = "EndDefinition" => symbol_table.scope_stack = <<>>
    /\ (last.op = "Fail" /\ result.res = "Err") =>
          /\ \A n \in 1..Len(last.frames) :
                (last.frames[n].s.k = "Block" /\ last.frames[n].step >= 1) =>
                    symbol_table.scope_stack = last.frames[n].saved
          /\ symbol_table.scope_stack = <<>>

(***************************************************************************)
(* C5.  While any body is lowered the function table holds every           *)
(* declaration and every definition of the module, so a call of a function *)
(* that the module names never ends in the `undeclared function` panic,    *)
(* in whatever order the functions are listed and whether the call is to   *)
(* the caller itself, to a later definition or to a declaration.           *)
(***************************************************************************)
ModuleNames ==
    {prog.declarations[n].name : n \in 1..Len(prog.declarations)}
    \cup {prog.functions[n].declaration.name : n \in 1..Len(prog.functions)}

\* The lowering has panicked with `undeclared function` in a statement that
\* is a call, without arguments, of `name`.
UndeclaredInCallOf(name) ==
    /\ last.op = "Fail" /\ Len(last.frames) > 0
    /\ result.msg = "undeclared function"
    /\ LET s == last.frames[Len(last.frames)].s
       IN /\ s.k = "Expression"
          /\ s.expression.k = "FunctionCall"
          /\ s.expression.arguments = <<>>
          /\ s.expression.name = name

C5_Registered ==
    /\ pc = "bodies" => ModuleNames \subseteq DOMAIN symbol_table.functions
    /\ \A name \in ModuleNames : ~UndeclaredInCallOf(name)
    /\ result.msg # "called unwrap on a None value"

\* Two definitions that call each other were lowered: the first calls the
\* second before the body of the second is lowered.
C5_Witness ==
    /\ pc = "done"
    /\ Len(prog.functions) = 2
    /\ prog.functions[1].body
          = <<ExpressionS(FunctionCall(prog.functions[2].declaration.name, <<>>))>>
    /\ prog.functions[2].body
          = <<ExpressionS(FunctionCall(prog.functions[1].declaration.name, <<>>))>>
    /\ \E b \in 1..2 : module.functions[b].blocks[1].instrs[1].op = "call"

(***************************************************************************)
(* C6.  An Assignment whose value type differs from the declared type of   *)
(* the target fails with TypeMismatch{expected = the type of the slot,     *)
(* actual = the type of the value}, for every pair of distinct primitive   *)
(* types, and emits no store into the slot.                                *)
(* The code compares the LLVM types (i32 and u32 are the same) and always  *)
(* reports expected I32, received I32: C6_TypeMismatch is the statement,   *)
(* TLC finds it violated.                                                  *)
(***************************************************************************)
AssignsParameter ==
    /\ Len(prog.functions) = 1
    /\ Len(prog.functions[1].declaration.params) = 2
    /\ prog.functions[1].body = <<ExpressionS(Assignment("p", LValueE("q")))>>

C6_TypeMismatch ==
    LET params == prog.functions[1].declaration.params
    IN (AssignsParameter /\ params[1].ty # params[2].ty /\ Returned) =>
          /\ result.res = "Err"
          /\ result.err = TypeMismatch(params[1].ty, params[2].ty)
          /\ \A n \in 1..Len(module.functions[1].blocks[1].instrs) :
                LET ins == module.functions[1].blocks[1].instrs[n]
                IN ins.op = "store" => ins.val.k = "param"

(***************************************************************************)
(* C7.  The result of a call of a function with no return type, used as an *)
(* operand, makes the lowering fail with VoidOperation at every place that *)
(* consumes a value: LocalVar initializer, Conditional and Loop condition, *)
(* Return value, Assignment right-hand side, either operand of a           *)
(* BinaryOperation, FunctionCall argument; also inside a UnaryOperation.   *)
(***************************************************************************)
VoidOperands ==
    {FunctionCall("v", <<>>), UnaryOperation("Negate", FunctionCall("v", <<>>))}

ConsumesVoid ==
    /\ Len(prog.functions) = 1
    /\ \E e \in VoidOperands :
          prog.functions[1].body \in {<<s>> : s \in Consumers(e) \ {ExpressionS(e)}}

C7_VoidOperation ==
    ConsumesVoid =>
        /\ pc \notin {"return", "done", "panic"}
        /\ Len(stack) <= 1
        /\ ~(pc = "bodies" /\ j = 2 /\ stack = <<>>)
        /\ pc = "err" => result.err = VoidOperation

\* The void call inside a unary operation, as the argument of a call, has
\* ended the lowering with VoidOperation.
C7_Witness ==
    /\ ConsumesVoid
    /\ prog.functions[1].body
          = <<ExpressionS(FunctionCall("g",
                 <<UnaryOperation("Negate", FunctionCall("v", <<>>))>>))>>
    /\ pc = "err"
    /\ result.err = VoidOperation

(***************************************************************************)
(* C8.  A BinaryOperation with an integer-typed left operand and a         *)
(* floating-point-typed right operand (5 + 2.5) converts the left operand  *)
(* and completes with a float-typed value.                                 *)
(* The code converts, then finds that the operands are not two integers    *)
(* and panics: C8_IntFloatCompletes is the statement, TLC finds it         *)
(* violated.                                                               *)
(***************************************************************************)
IntPlusFloat ==
    /\ Len(prog.functions) = 1
    /\ \E l \in {IntegerLiteral(5), LValueE("p")} :
       \E r \in {FloatLiteral(25), LValueE("q")} :
          /\ prog.functions[1].declaration.params
                = <<Param("p", "I32"), Param("q", "F32")>>
          /\ prog.functions[1].body = <<ExpressionS(BinaryOperation(l, "Add", r))>>

C8_IntFloatCompletes ==
    (IntPlusFloat /\ Returned) => result.res = "Ok"

Visits(b) == Cardinality({n \in 1..Len(exec.visits) : exec.visits[n] = b})

Max(a, b) == IF a > b THEN a ELSE b

ExecFinished == exec.status \in {"returned", "unterminated"}

C10_LoopRuns ==
    (prog \in LoopModules /\ exec.status # "idle") =>
        LET start == prog.functions[1].body[1].value.v
            limit == prog.functions[1].body[2].condition.rexpr.v
            header == lowered[1].blocks[1]
            body == lowered[1].blocks[2]
            exit == lowered[1].blocks[3]
            slot == module.functions[exec.function].blocks[1].instrs[1].id
        IN /\ exec.status \in {"running", "returned", "unterminated"}
           /\ exec.steps < MaxSteps
           /\ Count(exec.evals, header) = Visits(body) + Visits(exit)
           /\ Visits(exit) <= 1
           /\ ExecFinished =>
                 /\ exec.block = exit
                 /\ Visits(body) = Max(limit - start, 0)
                 /\ Count(exec.evals, header) = Visits(body) + 1
                 /\ exec.mem[slot] = Max(start, limit)
                 /\ (start = 0 /\ limit = 3) =>
                       /\ Visits(body) = 3
                       /\ Count(exec.evals, header) = 4
                       /\ exec.mem[slot] = 3

\* The loop from 0 to 3 has been executed to the exit block.
C10_Witness ==
    /\ prog \in LoopModules
    /\ prog.functions[1].body = LoopBody(0, 3)
    /\ ExecFinished
    /\ exec.block = lowered[1].blocks[3]
    /\ Visits(lowered[1].blocks[2]) = 3
    /\ Count(exec.evals, lowered[1].blocks[1]) = 4
    /\ exec.mem[0] = 3

(***************************************************************************)
(* C11.  Lowering                                                          *)
(*     x: i32 = 2; if (x > 1) { x = x + 1; } else { x = 0; }               *)
(* adds to the function exactly the three blocks then, else and merge      *)
(* besides entry, and executing the emitted graph from entry enters the    *)
(* then block, never the else block, and reaches merge with 3 in the slot  *)
(* of x.  For every start and bound: the arm that is entered is the one    *)
(* the comparison selects, once, and control reaches merge.                *)
(***************************************************************************)
Labels(fn) == [b \in 1..Len(fn.blocks) |-> fn.blocks[b].label]

C11_ConditionalRuns ==
    (prog \in CondModules /\ pc = "done") =>
        LET start == prog.functions[1].body[1].value.v
            bound == prog.functions[1].body[2].condition.rexpr.v
            fn == module.functions[1]
            then_block == lowered[1].blocks[1]
            else_block == lowered[1].blocks[2]
            merge_block == lowered[1].blocks[3]
            slot == fn.blocks[1].instrs[1].id
        IN /\ Labels(fn) = <<"entry", "then", "else", "merge">>
           /\ <<then_block, else_block, merge_block>> = <<2, 3, 4>>
           /\ exec.status # "idle" =>
                 /\ exec.status \in {"running", "returned", "unterminated"}
                 /\ exec.steps < MaxSteps
                 /\ Visits(then_block) + Visits(else_block) <= 1
                 /\ ExecFinished =>
                       /\ exec.block = merge_block
                       /\ Visits(then_block) = BoolBit(start > bound)
                       /\ Visits(else_block) = BoolBit(~(start > bound))
                       /\ exec.mem[slot] = IF start > bound THEN start + 1 ELSE 0
                       /\ (start = 2 /\ bound = 1) =>
                             /\ Visits(then_block) = 1
                             /\ Visits(else_block) = 0
                             /\ exec.mem[slot] = 3

\* The conditional on x = 2 has been executed through then to merge.
C11_Witness ==
    /\ prog \in CondModules
    /\ prog.functions[1].body[1].value.v = 2
    /\ prog.functions[1].body[2].condition.rexpr.v = 1
    /\ prog.functions[1].body[2].block.k = "Block"
    /\ ExecFinished
    /\ exec.block = 4
    /\ exec.visits = <<1, 2, 4>>
    /\ exec.mem[0] = 3

(***************************************************************************)
(* C12.  A VoidOperation or TypeMismatch error raised inside a body stops  *)
(* the lowering at once: build_module returns that error; nothing is       *)
(* emitted after the instructions of the failing statement that preceded   *)
(* the error (no instruction at the insertion point, none in the blocks    *)
(* that enclosing Conditional and Loop statements had created for later    *)
(* use, no return of a later statement); no later definition gets a block; *)
(* and the caller, which receives the error alone, receives no module that *)
(* holds the function that failed.                                         *)
(***************************************************************************)
Instrs(fn) == UNION {{fn.blocks[b].instrs[n] : n \in 1..Len(fn.blocks[b].instrs)} :
                        b \in 1..Len(fn.blocks)}

\* The last instruction that the failing statement s emits before its error.
LastBeforeError(s, ins) ==
    IF s = BadVoid THEN ins.op = "call"
    ELSE ins.op = "alloca" /\ ins.name = "z"

\* The blocks that the active call f of build_statement has created and not
\* yet filled when the statement nested in it fails.
Pending(f) ==
    CASE f.s.k = "Conditional" /\ f.step = 1 -> {f.blocks[2], f.blocks[3]}
      [] f.s.k = "Conditional" /\ f.step = 2 -> {f.blocks[3]}
      [] f.s.k = "Loop" /\ f.step = 1 -> {f.blocks[3]}
      [] OTHER -> {}

C12_ErrorStops ==
    /\ prog \in ErrorModules => pc \notin {"return", "done", "panic"}
    /\ (prog \in ErrorModules /\ pc = "err") =>
          LET failed == get_function(symbol_table,
                                     prog.functions[i].declaration.name).handle
              fn == module.functions[failed]
              at == fn.blocks[builder.block].instrs
              s == last.frames[Len(last.frames)].s
          IN /\ stack = <<>>
             /\ result.res = "Err"
             /\ result.err = IF s = BadVoid THEN VoidOperation
                             ELSE TypeMismatch("I32", "I32")
             /\ builder.function = failed
             /\ j = 2
             /\ LastBeforeError(s, at[Len(at)])
             /\ \A n \in 1..Len(last.frames) :
                   \A b \in Pending(last.frames[n]) : fn.blocks[b].instrs = <<>>
             /\ \A ins \in Instrs(fn) : ins.op # "ret"
             /\ \A h \in (i + 1)..Len(prog.functions) :
                   module.functions[
                       get_function(symbol_table,
                                    prog.functions[h].declaration.name).handle
                   ].blocks = <<>>
             /\ Outcome.module = NewModule
             /\ \A h \in 1..Len(Outcome.module.functions) :
                   Outcome.module.functions[h].name # fn.name

\* The first of two definitions has failed three statements deep, inside the
\* else-branch of a Conditional inside a Loop.
C12_Witness ==
    /\ prog \in ErrorModules
    /\ pc = "err"
    /\ i = 1
    /\ Len(prog.functions) = 2
    /\ Len(last.frames) = 3
    /\ last.frames[1].s.k = "Loop"
    /\ last.frames[2].s.k = "Conditional" /\ last.frames[2].step = 2
    /\ result.err = TypeMismatch("I32", "I32")

(***************************************************************************)
(* C13.  push_value is never called while the scope stack is empty: a      *)
(* scope is open at every binding of a parameter and of a local, so the    *)
(* abort `There is no stack to put local var in` is unreachable, and while *)
(* a body is lowered the depth of the scope stack is at least 1.           *)
(***************************************************************************)
C13_ScopeOpen ==
    /\ InBody => Len(symbol_table.scope_stack) >= 1
    /\ last.op \in {"BeginDefinition", "LocalVar"} =>
          Len(symbol_table.scope_stack) >= 1
    /\ last.op = "LocalVar" =>
          last.s.name \in DOMAIN symbol_table.scope_stack[Len(symbol_table.scope_stack)]
    /\ last.op = "BeginDefinition" =>
          \A n \in 1..Len(prog.functions[i].declaration.params) :
              prog.functions[i].declaration.params[n].name
                  \in DOMAIN symbol_table.scope_stack[1]
    /\ result.msg # "There is no stack to put local var in"

\* The local w has been bound at the function level after two nested Blocks,
\* each with a local of its own, were closed.
C13_Witness ==
    /\ prog = ScopeModule(TRUE, TRUE, TRUE)
    /\ last.op = "LocalVar"
    /\ last.s.name = "w"
    /\ Len(symbol_table.scope_stack) = 1
    /\ DOMAIN symbol_table.scope_stack[1] = {"p", "x", "w"}

(***************************************************************************)
(* C14.  get_value returns the binding of the name in the innermost open   *)
(* scope that holds it, and none when no open scope holds it; a binding of *)
(* an inner scope shadows an outer one only while the inner scope is open: *)
(* after pop_scope the same lookup gives the outer binding again, or none. *)
(* Observed on the loads emitted for the reads of x at three depths.       *)
(***************************************************************************)
\* The declaration that a read at depth d must resolve to: the type of the
\* deepest declaration at depth d or above it, "none" when there is none.
Resolves(d, d0, d1, d2) ==
    IF d >= 2 /\ d2 THEN "i16"
    ELSE IF d >= 1 /\ d1 THEN "i8"
    ELSE IF d0 THEN "i32"
    ELSE "none"

\* The loads and the slots of the lowered function, in emission order.
OfKind(instrs, op) == SelectSeq(instrs, LAMBDA ins : ins.op = op)

SlotOfType(instrs, ty) ==
    (CHOOSE n \in 1..Len(instrs) :
        instrs[n].op = "alloca" /\ instrs[n].name = "x" /\ instrs[n].ty = ty)

C14_InnermostFirst ==
    \A d0, d1, d2 \in BOOLEAN :
        (prog = ScopeModule(d0, d1, d2) /\ Returned) =>
            LET instrs == module.functions[1].blocks[1].instrs
                loads == OfKind(instrs, "load")
                want == <<Resolves(2, d0, d1, d2), Resolves(1, d0, d1, d2),
                          Resolves(0, d0, d1, d2)>>
                misses == {n \in 1..3 : want[n] = "none"}
                found == IF misses = {} THEN 3
                         ELSE (CHOOSE n \in misses : \A m \in misses : n <= m) - 1
            IN /\ Len(loads) = found
               /\ \A n \in 1..found :
                     /\ loads[n].ty = want[n]
                     /\ loads[n].ptr.id = instrs[SlotOfType(instrs, want[n])].id
               /\ misses = {} => pc = "done"
               /\ misses # {} =>
                     pc = "panic" /\ result.msg = "Identifier not on stack"

\* x is declared at every depth: the three reads went to the innermost, the
\* middle and the outer slot, in this order.
C14_Witness ==
    /\ prog = ScopeModule(TRUE, TRUE, TRUE)
    /\ pc = "done"
    /\ LET loads == OfKind(module.functions[1].blocks[1].instrs, "load")
       IN <<loads[1].ty, loads[2].ty, loads[3].ty>> = <<"i16", "i8", "i32">>

(***************************************************************************)
(* C15.  The function table is written at most once per name, only in the  *)
(* two registration passes, and is not modified while a body is lowered;   *)
(* the function value that get_function gives for a name while a body is   *)
(* lowered is the one that the only write for that name registered: the    *)
(* prototype of that name in the module.  (The names of a typed module are *)
(* unique across its declarations and definitions.)                        *)
(***************************************************************************)
\* A step of one call of build_module that changes the function table adds
\* one name that was not in it, in a registration pass, and keeps the rest.
WritesOnce ==
    (run' = run /\ symbol_table'.functions # symbol_table.functions) =>
        /\ pc \in {"declarations", "functions"}
        /\ \E name \in ModuleNames \ DOMAIN symbol_table.functions :
              DOMAIN symbol_table'.functions
                  = DOMAIN symbol_table.functions \cup {name}
        /\ \A name \in DOMAIN symbol_table.functions :
              symbol_table'.functions[name] = symbol_table.functions[name]

\* The declaration of the name in the typed module.
DeclarationOf(name) ==
    LET decls == [n \in 1..Len(prog.declarations) |-> prog.declarations[n]]
                 \o [n \in 1..Len(prog.functions) |-> prog.functions[n].declaration]
    IN decls[CHOOSE n \in 1..Len(decls) : decls[n].name = name]

ResolvesToPrototype ==
    InBody =>
        /\ DOMAIN symbol_table.functions = ModuleNames
        /\ \A name \in ModuleNames :
              LET fv == get_function(symbol_table, name)
                  dec == DeclarationOf(name)
              IN /\ module.functions[fv.handle].name = name
                 /\ fv.ret = (IF dec.ty = "None" THEN "void" ELSE to_llvm_type(dec.ty))
                 /\ Len(fv.params) = Len(dec.params)

C15_WriteOnce == []ResolvesToPrototype /\ [][WritesOnce]_vars

\* A declaration and two definitions were registered, and the bodies, which
\* call them, were lowered.
C15_Witness ==
    /\ pc = "done"
    /\ Len(prog.declarations) = 1
    /\ Len(prog.functions) = 2
    /\ Cardinality(DOMAIN symbol_table.functions) = 3
    /\ module.functions[2].blocks[1].instrs[1].op = "call"
    /\ module.functions[2].blocks[1].instrs[1].fn = 1

(***************************************************************************)
(* C16.  The conversion of an integer operand to float in a                *)
(* BinaryOperation is directional: it is emitted only when the left        *)
(* operand is an integer and the right one a float; with a float on the    *)
(* left and an integer on the right none is emitted; and every pairing of  *)
(* operand kinds other than integer with integer ends in the panic, never  *)
(* in a returned VoidOperation or TypeMismatch error.                       *)
(***************************************************************************)
IntOperands == {IntegerLiteral(5), LValueE("p")}
FloatOperands == {FloatLiteral(25), LValueE("q")}

C16_Directional ==
    \A l, r \in BinaryOperands :
        (/\ prog \in BinaryModules
         /\ prog.functions[1].body = <<ExpressionS(BinaryOperation(l, "Add", r))>>
         /\ Returned) =>
            LET casts == OfKind(module.functions[1].blocks[1].instrs, "sitofp")
            IN /\ Len(casts) > 0 => (l \in IntOperands /\ r \in FloatOperands)
               /\ (l = LValueE("p") /\ r \in FloatOperands) =>
                     /\ Len(casts) = 1
                     /\ casts[1].val.k = "reg" /\ casts[1].val.ty = "i32"
                     /\ casts[1].ty = "f32"
               /\ (l \in IntOperands /\ r \in IntOperands) => pc = "done"
               /\ ~(l \in IntOperands /\ r \in IntOperands) =>
                     /\ pc = "panic"
                     /\ result.res = "Panic"
                     /\ result.err = NoErr
                     /\ result.msg = "Binary operation is not yet implemented"

\* q + p, a float parameter on the left and an integer parameter on the
\* right, has ended in the panic with both operands loaded and no conversion.
C16_Witness ==
    /\ prog \in BinaryModules
    /\ prog.functions[1].body
          = <<ExpressionS(BinaryOperation(LValueE("q"), "Add", LValueE("p")))>>
    /\ pc = "panic"
    /\ Len(OfKind(module.functions[1].blocks[1].instrs, "load")) = 2
    /\ Len(OfKind(module.functions[1].blocks[1].instrs, "sitofp")) = 0

(***************************************************************************)
(* C17.  When the lowering of a body starts, the entry block is the        *)
(* insertion point and holds, for each parameter in declaration order, one *)
(* slot allocation followed by one store of the incoming parameter into    *)
(* that slot; each parameter name is bound in the function-level scope to  *)
(* its own slot, with the type of the parameter; and the read of a         *)
(* parameter is lowered like the read of a local: one load of the type of  *)
(* the binding from its slot.                                              *)
(***************************************************************************)
\* The lowering of the read of `name` in the present state is one load, of
\* type ty, from the slot.
ReadsSlot(name, slot, ty) ==
    LET r == build_expression(LValueE(name), symbol_table, Start(nextv))
    IN /\ r.res = "Ok"
       /\ r.code = <<[op |-> "load", ptr |-> PtrVal(slot), id |-> nextv, ty |-> ty]>>
       /\ r.val = RegVal(ty, nextv)

C17_Parameters ==
    /\ last.op = "BeginDefinition" =>
          LET params == prog.functions[i].declaration.params
              fn == module.functions[builder.function]
              instrs == fn.blocks[1].instrs
              scope == symbol_table.scope_stack[1]
          IN /\ fn.name = prog.functions[i].declaration.name
             /\ Labels(fn) = <<"entry">>
             /\ builder.block = 1
             /\ Len(instrs) = 2 * Len(params)
             /\ Len(symbol_table.scope_stack) = 1
             /\ DOMAIN scope = {params[n].name : n \in 1..Len(params)}
             /\ \A n \in 1..Len(params) :
                   LET ty == to_llvm_type(params[n].ty)
                       slot == instrs[2 * n - 1]
                   IN /\ slot.op = "alloca" /\ slot.ty = ty
                      /\ instrs[2 * n] = Store(PtrVal(slot.id), ParamVal(ty, n))
                      /\ scope[params[n].name] = Symbol(PtrVal(slot.id), ty)
                      /\ ReadsSlot(params[n].name, slot.id, ty)
                      /\ \A m \in 1..Len(params) :
                            m # n => instrs[2 * m - 1].id # slot.id
    /\ last.op = "LocalVar" =>
          LET scope == symbol_table.scope_stack[Len(symbol_table.scope_stack)]
              symbol == scope[last.s.name]
          IN /\ symbol.ty = to_llvm_type(last.s.datatype)
             /\ ReadsSlot(last.s.name, symbol.ptr.id, symbol.ty)

\* The body of f(p: bool, q: f64) is about to be lowered.
C17_Witness ==
    /\ last.op = "BeginDefinition"
    /\ prog.functions[i].declaration.params = <<Param("p", "Bool"), Param("q", "F64")>>
    /\ Len(module.functions[builder.function].blocks[1].instrs) = 4
    /\ symbol_table.scope_stack[1]["q"].ty = "f64"

(***************************************************************************)
(* C18.  Blocks are appended to a function in creation order: entry first; *)
(* a Conditional appends then, else, merge and a Loop appends its header,  *)
(* body and exit, in this order and before any block of the statements     *)
(* nested in its arms or body.  Within a block the instructions are in the *)
(* order of the program text: statement after statement, the left operand  *)
(* before the right one, the arguments of a call left to right and before  *)
(* the call.                                                               *)
(***************************************************************************)
\* The labels of the blocks that a statement appends, in creation order.
RECURSIVE BlocksOf(_)
BlocksOf(s) ==
    CASE s.k = "Conditional" ->
            <<"then", "else", "merge">> \o BlocksOf(s.block)
            \o (IF s.else_block = NoStmt THEN <<>> ELSE BlocksOf(s.else_block))
      [] s.k = "Loop" -> <<"loop", "body", "continue">> \o BlocksOf(s.body)
      [] s.k = "Block" ->
            IF s.statements = <<>> THEN <<>>
            ELSE BlocksOf(s.statements[1]) \o BlocksOf(Block(Tail(s.statements)))
      [] OTHER -> <<>>

\* The functions that the expression calls, in the order of its text with the
\* arguments of a call before the call.
RECURSIVE CallsOf(_)
CallsOf(e) ==
    CASE e.k = "BinaryOperation" -> CallsOf(e.lexpr) \o CallsOf(e.rexpr)
      [] e.k = "FunctionCall" ->
            (IF e.arguments = <<>> THEN <<>>
             ELSE CallsOf(e.arguments[1])
                  \o (IF Len(e.arguments) = 1 THEN <<>> ELSE CallsOf(e.arguments[2])))
            \o <<e.name>>
      [] OTHER -> <<>>

\* The names of the functions called in a block, in the order of its calls.
Called(instrs) ==
    LET calls == OfKind(instrs, "call")
    IN [n \in 1..Len(calls) |-> module.functions[calls[n].fn].name]

C18_CreationOrder ==
    pc = "done" =>
        /\ \A n \in 1..Len(prog.functions) :
              LET fn == module.functions[
                            get_function(symbol_table,
                                         prog.functions[n].declaration.name).handle]
              IN Labels(fn) = <<"entry">> \o BlocksOf(Block(prog.functions[n].body))
        /\ prog \in OrderModules =>
              LET body == prog.functions[1].body
                  instrs == module.functions[4].blocks[1].instrs
              IN /\ Called(instrs)
                      = CallsOf(body[1].expression) \o CallsOf(body[2].expression)
                 /\ instrs[Len(instrs)].op = "ret"
                 /\ \E n \in 1..Len(instrs) :
                       /\ instrs[n].op = "add"
                       /\ Len(Called(SubSeq(instrs, 1, n)))
                             = Len(CallsOf(body[1].expression))

\* k(a(), b()) + k(b(), a()) was lowered: the six calls of the first
\* statement are in the entry block in this order.
C18_Witness ==
    /\ prog \in OrderModules
    /\ pc = "done"
    /\ prog.functions[1].body[1].expression
          = BinaryOperation(FunctionCall("k", <<CallOf("a"), CallOf("b")>>), "Add",
                            FunctionCall("k", <<CallOf("b"), CallOf("a")>>))
    /\ SubSeq(Called(module.functions[4].blocks[1].instrs), 1, 6)
          = <<"a", "b", "k", "b", "a", "k">>

(***************************************************************************)
(* C19.  LogicAnd and LogicOr are lowered exactly like BitAnd and BitOr:   *)
(* both operands are lowered, in the current block, the left one first,    *)
(* and no block or branch is created; so the instructions of the right     *)
(* operand, a call or an assignment, are emitted and executed whatever the *)
(* value of the left operand.                                              *)
(***************************************************************************)
Bitwise_of(op) ==
    CASE op = "LogicAnd" -> "BitAnd"
      [] op = "LogicOr" -> "BitOr"
      [] OTHER -> op

C19_LogicIsBitwise ==
    prog \in LogicModules =>
        LET e == prog.functions[1].body[3].expression
            left == prog.functions[1].body[2].value.v
            conj == e.bop \in {"LogicAnd", "BitAnd"}
            instrs == module.functions[2].blocks[1].instrs
            n == IF e.rexpr = SetsX THEN 8 ELSE 7
        IN /\ (Lowering("Expression", 0) /\ Top.s.expression = e) =>
                 build_expression(e, symbol_table, Start(nextv))
                   = build_expression([e EXCEPT !.bop = Bitwise_of(e.bop)],
                                      symbol_table, Start(nextv))
           /\ pc = "done" =>
                 /\ Labels(module.functions[2]) = <<"entry">>
                 /\ \A ins \in Instrs(module.functions[2]) :
                       ins.op \notin {"br", "condbr"}
                 /\ instrs[5].op = "load" /\ instrs[5].ptr = PtrVal(instrs[3].id)
                 /\ instrs[n].op = (IF conj THEN "and" ELSE "or")
                 /\ instrs[n].l = RegVal("i32", instrs[5].id)
                 /\ instrs[n].r = RegVal("i32", instrs[n - 1].id)
                 /\ e.rexpr = SetsX =>
                       /\ instrs[6] = Store(PtrVal(instrs[1].id), ConstVal("i32", 1))
                       /\ instrs[7].op = "load"
                       /\ instrs[7].ptr = PtrVal(instrs[1].id)
                 /\ e.rexpr # SetsX => instrs[6].op = "call"
           /\ (exec.status # "idle" /\ ExecFinished) =>
                 /\ exec.visits = <<1>>
                 /\ exec.mem[instrs[1].id] = 1
                 /\ exec.regs[instrs[8].id]
                       = (IF conj THEN left % 2 ELSE left + 1 - (left % 2))

\* `0 LogicAnd (x = 1)` was executed: x holds 1 although the left operand
\* is 0, and the value of the operation is 0.
C19_Witness ==
    /\ prog \in LogicModules
    /\ prog.functions[1].body[2].value.v = 0
    /\ prog.functions[1].body[3].expression.bop = "LogicAnd"
    /\ ExecFinished
    /\ exec.mem[module.functions[2].blocks[1].instrs[1].id] = 1
    /\ exec.regs[module.functions[2].blocks[1].instrs[8].id] = 0

(***************************************************************************)
(* C20.  Symbols do not outlive the function that created them: when       *)
(* build_module has lowered a definition successfully the scope stack is   *)
(* empty, the body of the next definition starts with its own parameters   *)
(* as the only bindings, and no parameter or local of one definition is    *)
(* resolved while another definition is lowered.                           *)
(***************************************************************************)
C20_SymbolsConfined ==
    /\ last.op = "EndDefinition" => symbol_table.scope_stack = <<>>
    /\ pc = "done" => symbol_table.scope_stack = <<>>
    /\ last.op = "BeginDefinition" =>
          /\ Len(symbol_table.scope_stack) = 1
          /\ DOMAIN symbol_table.scope_stack[1]
                = {prog.functions[i].declaration.params[n].name :
                      n \in 1..Len(prog.functions[i].declaration.params)}
    /\ \A name \in OwnNames :
          (/\ prog \in OwnerModules
           /\ \E n \in 1..2 : prog.functions[n] = Reader(name)
           /\ Returned) =>
              IF name = "b" THEN pc = "done"
              ELSE /\ pc = "panic"
                   /\ result.msg = "Identifier not on stack"
                   /\ prog.functions[i] = Reader(name)
                   /\ OfKind(module.functions[
                                 get_function(symbol_table, "reader").handle
                             ].blocks[1].instrs, "load") = <<>>

\* The owner was lowered first, with its parameter and its locals; the read
\* of its local x in the reader, lowered next, found no binding.
C20_Witness ==
    /\ prog = Module(<<>>, <<Owner, Reader("x")>>, FALSE)
    /\ pc = "panic"
    /\ i = 2
    /\ Len(module.functions[1].blocks[1].instrs) = 6
    /\ DOMAIN symbol_table.scope_stack[1] = {"b"}

(***************************************************************************)
(* C21.  In the lowering of LocalVar(name, type, initializer) the          *)
(* initializer is lowered before the name is bound: an occurrence of the   *)
(* name in the initializer resolves to the binding that was visible before *)
(* the declaration, an outer or an earlier one, never to the slot being    *)
(* declared (with no such binding the identifier is not found); the name   *)
(* is bound in the innermost scope after the store, and is bound also when *)
(* there is no initializer.                                                *)
(***************************************************************************)
C21_InitializerFirst ==
    /\ last.op = "LocalVar" =>
          LET at == module.functions[builder.function].blocks[builder.block].instrs
              scope == symbol_table.scope_stack[Len(symbol_table.scope_stack)]
              slots == SelectSeq(at, LAMBDA ins :
                                     ins.op = "alloca" /\ ins.name = last.s.name)
              slot == slots[Len(slots)]
          IN /\ last.s.name \in DOMAIN scope
             /\ scope[last.s.name]
                   = Symbol(PtrVal(slot.id), to_llvm_type(last.s.datatype))
             /\ IF last.s.value = NoExpr THEN at[Len(at)] = slot
                ELSE /\ at[Len(at)].op = "store"
                     /\ at[Len(at)].ptr = PtrVal(slot.id)
    /\ \A prior, inner \in BOOLEAN : \A init \in Initializers :
          (prog = RebindModule(prior, inner, init) /\ Returned) =>
              LET instrs == module.functions[1].blocks[1].instrs
                  slots == OfKind(instrs, "alloca")
                  loads == OfKind(instrs, "load")
                  stores == OfKind(instrs, "store")
                  old == slots[Len(slots) - 1].id
                  new == slots[Len(slots)].id
                  uses == init # NoExpr
                  k == IF uses THEN 1 ELSE 0
              IN /\ Len(slots) = (IF prior THEN 3 ELSE 2)
                 /\ slots[Len(slots)].name = "x"
                 /\ IF uses /\ ~prior
                    THEN /\ pc = "panic"
                         /\ result.msg = "Identifier not on stack"
                         /\ loads = <<>>
                         /\ get_value(symbol_table, "x") = NoneVal
                         /\ \A n \in 1..Len(stores) : stores[n].ptr # PtrVal(new)
                    ELSE /\ uses =>
                               /\ loads[1].ptr = PtrVal(old)
                               /\ stores[Len(stores)].ptr = PtrVal(new)
                               /\ stores[Len(stores)].val.k = "reg"
                               /\ stores[Len(stores)].val.id >= loads[1].id
                         /\ ~uses =>
                               \A n \in 1..Len(stores) : stores[n].ptr # PtrVal(new)
                         /\ loads[k + 1].ptr = PtrVal(new)
                         /\ IF inner /\ ~prior
                            THEN /\ pc = "panic"
                                 /\ result.msg = "Identifier not on stack"
                                 /\ Len(loads) = k + 1
                            ELSE /\ pc = "done"
                                 /\ Len(loads) = k + (IF inner THEN 2 ELSE 1)
                                 /\ inner => loads[k + 2].ptr = PtrVal(old)

\* x: i32 = 1; { x: i32 = x + 1; x; } x;  was lowered: the initializer read
\* the outer slot, the read in the Block the inner one, the last read the
\* outer one again.
C21_Witness ==
    /\ prog = RebindModule(TRUE, TRUE,
                           BinaryOperation(LValueE("x"), "Add", IntegerLiteral(1)))
    /\ pc = "done"
    /\ LET loads == OfKind(module.functions[1].blocks[1].instrs, "load")
       IN <<loads[1].ptr.id, loads[2].ptr.id, loads[3].ptr.id>> = <<1, 2, 1>>

(***************************************************************************)
(* C22.  The lowering of an expression never changes the symbol table:     *)
(* for an assignment, an identifier read, a literal, a binary or unary     *)
(* operation and a call, whether it succeeds or fails, the scope stack and *)
(* the function table are after build_expression what they were before.    *)
(* An Assignment changes the content of a slot, not a binding; a LocalVar  *)
(* changes the table by its own binding only.                              *)
(***************************************************************************)
\* The next step of the lowering is that of a statement which does nothing
\* to the symbol table but lower an expression: an expression statement, a
\* Return, the condition of a Conditional or of a Loop.
LowersExpression ==
    /\ InBody /\ stack # <<>>
    /\ Top.step = 0
    /\ Top.s.k \in {"Expression", "Return", "Conditional", "Loop"}

\* ... or that of a LocalVar, which lowers its initializer and binds its name.
LowersLocalVar == Lowering("LocalVar", 0)

TableKept ==
    /\ LowersExpression => symbol_table' = symbol_table
    /\ LowersLocalVar =>
          \/ symbol_table' = symbol_table
          \/ /\ pc' = pc
             /\ \E symbol \in {symbol_table'.scope_stack[
                                    Len(symbol_table'.scope_stack)][Top.s.name]} :
                   symbol_table' = push_value(symbol_table, Top.s.name, symbol)

C22_TableUnchanged == [][TableKept]_vars

\* An assignment to the parameter p was lowered inside a Block: p is found
\* in the outer scope, where it was bound, and the Block's scope is empty.
C22_Witness ==
    /\ last.op = "Expression"
    /\ last.s.expression.k = "Assignment"
    /\ last.s.expression.ident = "p"
    /\ Len(symbol_table.scope_stack) = 2
    /\ DOMAIN symbol_table.scope_stack[2] = {}
    /\ "p" \in DOMAIN symbol_table.scope_stack[1]

(***************************************************************************)
(* C23.  Only Block statements and the entry of a function open a scope:   *)
(* while a body is lowered the depth of the scope stack is 1 plus the      *)
(* number of enclosing Block statements; Conditional and Loop open none,   *)
(* so a LocalVar that is itself the arm of a Conditional or the body of a  *)
(* Loop, not wrapped in a Block, is still bound in the enclosing scope     *)
(* after the construct.                                                    *)
(***************************************************************************)
\* The Block statements that are being lowered and have opened their scope.
OpenBlocks ==
    {n \in 1..Len(stack) : stack[n].s.k = "Block" /\ stack[n].step >= 1}

\* The locals declared by the arms or the body of the statement s themselves.
BareLocals(s) ==
    {d.name : d \in {x \in (IF s.k = "Conditional" THEN {s.block, s.else_block}
                            ELSE IF s.k = "Loop" THEN {s.body} ELSE {}) :
                        x.k = "LocalVar"}}

C23_ScopeDepth ==
    /\ InBody => Len(symbol_table.scope_stack) = 1 + Cardinality(OpenBlocks)
    /\ last.op \in {"Conditional", "Loop"} =>
          \A name \in BareLocals(last.s) :
              /\ name \in DOMAIN symbol_table.scope_stack[
                                     Len(symbol_table.scope_stack)]
              /\ build_expression(LValueE(name), symbol_table, Start(nextv)).res
                    = "Ok"

\* The Loop whose body is the bare declaration of x, inside a Block, has
\* been lowered: x is bound in the scope of the Block.
C23_Witness ==
    /\ last.op = "Loop"
    /\ last.s.body = LocalVar("x", "I32", P)
    /\ Len(symbol_table.scope_stack) = 2
    /\ "x" \in DOMAIN symbol_table.scope_stack[2]

====
